---- MODULE Spec2Model ----
(***************************************************************************)
(* Lead processing pipeline of LeadProcessor:                              *)
(*   scripts/universal_processor.py  UniversalClickUpProcessor             *)
(*   scripts/leadgen_processor.py    LeadGenProcessor                      *)
(*                                                                         *)
(* Python strings are sequences of one-character strings.  A Python dict   *)
(* is a sequence of entries in insertion order with distinct keys.         *)
(* Python's None is the value None below; a ClickUpField whose options are *)
(* None has the empty option table, as the code only tests the truth of    *)
(* field.options.                                                          *)
(***************************************************************************)
EXTENDS Integers, Sequences, FiniteSets, TLC

VARIABLES
    pc,                 \* position of the running operation
    value,              \* _clean_field_value: argument value
    field_type,         \* _clean_field_value: argument field_type
    field_id,           \* _clean_field_value: argument field_id
    cleaned,            \* _clean_field_value: returned value
    phone,              \* clean_phone_number: argument phone
    lg_cleaned,         \* clean_phone_number: returned value
    discovered_fields,  \* self.discovered_fields (name -> ClickUpField, in order)
    df,                 \* deduplicate_leads: the input DataFrame (rows in order)
    deduped,            \* deduplicate_leads: the returned DataFrame
    leads,              \* _upload_to_clickup: argument leads
    i,                  \* _upload_to_clickup: loop counter of enumerate(leads, 1)
    phone_value,        \* _upload_to_clickup: local phone_value
    phone_field_id,     \* _upload_to_clickup: local phone_field_id
    task_payload,       \* _upload_to_clickup: custom_fields of the create payload
    task_id,            \* _upload_to_clickup: local task_id
    success_count,      \* _upload_to_clickup: local success_count
    returned,           \* _upload_to_clickup: the returned count (None before return)
    calls,              \* requests sent to the ClickUp API, oldest first
    email,              \* clean_email: argument email
    email_cleaned,      \* clean_email: returned value
    csv_headers,        \* _intelligent_csv_mapping: argument csv_headers
    csv_mapping,        \* self.csv_mapping (CSV header -> field id, in order)
    validated,          \* validate_leads: the returned DataFrame
    response,           \* answer of ClickUp to the sample request of discovery
    csv_rows,           \* process_csv: the rows of the CSV file, cells by header
    csv_readable,       \* process_csv: whether pd.read_csv can read the file
    test_mode,          \* process_csv: argument test_mode
    result,             \* process_csv: the returned bool ("none" before return)
    revenue,            \* estimate_value_from_revenue: argument revenue
    estimated,          \* estimate_value_from_revenue: returned value
    source,             \* which source format's processor runs
    company_revenue,    \* processed['company_revenue'], a cell per row
    estimated_value,    \* processed['estimated_value'], a cell per row
    email_again,        \* clean_email: returned value for the cleaned email
    gen_columns,        \* process_generic_csv: df.columns of the first read
    gen_rows,           \* process_generic_csv: number of data rows of the file
    headerless,         \* process_generic_csv: whether the file was re-read headerless
    gen_records,        \* process_generic_csv: number of rows of df that is processed
    csv_files,          \* process_all_csvs: the files of the directory, in order
    file_no,            \* process_all_csvs: number of files the loop has taken
    all_leads,          \* process_all_csvs: local all_leads
    lg_n,               \* upload_to_clickup: number of rows of argument df
    batch_size,         \* upload_to_clickup: argument batch_size
    batch_i,            \* upload_to_clickup: loop variable i, start of the batch
    batch_j,            \* upload_to_clickup: rows of the batch already taken
    lg_calls,           \* upload_to_clickup: create calls attempted, oldest first
    task_ids            \* upload_to_clickup: local task_ids

vars == <<pc, value, field_type, field_id, cleaned, phone, lg_cleaned,
          discovered_fields, df, deduped, leads, i, phone_value,
          phone_field_id, task_payload, task_id, success_count, returned, calls,
          email, email_cleaned, csv_headers, csv_mapping, validated, response,
          csv_rows, csv_readable, test_mode, result, revenue, estimated,
          source, company_revenue, estimated_value, email_again,
          gen_columns, gen_rows, headerless, gen_records, csv_files, file_no,
          all_leads, lg_n, batch_size, batch_i, batch_j, lg_calls, task_ids>>

coerce_vars == <<value, field_type, field_id, cleaned, phone, lg_cleaned>>
dedup_vars  == <<df, deduped>>
upload_vars == <<leads, i, phone_value, phone_field_id, task_payload, task_id,
                 success_count, returned, calls>>
email_vars  == <<email, email_cleaned, email_again>>
est_vars    == <<revenue, estimated, source, company_revenue, estimated_value>>
gen_vars    == <<gen_columns, gen_rows, headerless, gen_records>>
files_vars  == <<csv_files, file_no, all_leads>>
batch_vars  == <<lg_n, batch_size, batch_i, batch_j, lg_calls, task_ids>>
leadgen_vars == <<email_vars, est_vars, gen_vars, files_vars, batch_vars>>
map_vars    == <<csv_headers, csv_mapping>>
run_vars    == <<response, csv_rows, csv_readable, test_mode, result>>
more_vars   == <<leadgen_vars, map_vars, validated, run_vars>>

-----------------------------------------------------------------------------
(* Bounds of the model                                                     *)

MaxDigits  == 12   \* longest digit string fed to the phone coercion
MaxBody    == 6    \* longest generated address body fed to the email coercion
MaxOptions == 2    \* most options of a generated drop_down field
MaxValue   == 3    \* longest generated raw value of a drop_down field
MaxRaw     == 4    \* longest generated raw value fed to every field type
MaxRecords == 3    \* most rows of a generated DataFrame
MaxLeads   == 2    \* most leads of a generated upload batch
MaxHeaders == 2    \* most headers of a generated CSV file
MaxFields  == 2    \* most fields of a generated board
MaxRows    == 2    \* most rows of a frame given to validate_leads
MaxCombined == 3   \* most rows of a combined frame of process_all_csvs
MaxCsvRows == 3    \* most rows of a CSV file given to process_csv
MaxTasks   == 2    \* most tasks of a generated answer to the sample request
MaxScale   == 40   \* most steps of the generated revenue scale
MaxFileRows == 3   \* most rows of a generated source file

-----------------------------------------------------------------------------
(* Python values and string primitives                                     *)

None == <<"<None>">>

UpperChars == <<"A","B","C","D","E","F","G","H","I","J","K","L","M",
                "N","O","P","Q","R","S","T","U","V","W","X","Y","Z">>
LowerChars == <<"a","b","c","d","e","f","g","h","i","j","k","l","m",
                "n","o","p","q","r","s","t","u","v","w","x","y","z">>
DigitChars == {"0","1","2","3","4","5","6","7","8","9"}
SpaceChars == {" "}

Range(s) == {s[k] : k \in DOMAIN s}

UpperSet == Range(UpperChars)
LowerSet == Range(LowerChars)

\* str.lower() on one character
LowerChar(c) ==
    IF c \in UpperSet
    THEN LowerChars[CHOOSE k \in DOMAIN UpperChars : UpperChars[k] = c]
    ELSE c

\* str.lower()
Lower(s) == [k \in DOMAIN s |-> LowerChar(s[k])]

\* str.strip(): drop leading and trailing whitespace
RECURSIVE LStrip(_)
LStrip(s) == IF s # <<>> /\ Head(s) \in SpaceChars THEN LStrip(Tail(s)) ELSE s

RECURSIVE RStrip(_)
RStrip(s) ==
    IF s # <<>> /\ s[Len(s)] \in SpaceChars
    THEN RStrip(SubSeq(s, 1, Len(s) - 1))
    ELSE s

Strip(s) == RStrip(LStrip(s))

\* Python slice s[a:b] with 0-based a, b already clipped by the caller
Slice(s, a, b) == SubSeq(s, a + 1, b)

\* `sub in s` for strings
Contains(s, sub) ==
    \E k \in 0..(Len(s) - Len(sub)) : SubSeq(s, k + 1, k + Len(sub)) = sub

\* str.startswith
StartsWith(s, p) == Len(s) >= Len(p) /\ SubSeq(s, 1, Len(p)) = p

\* re.sub(r'[^\d]', '', s): keep the digits only
IsDigit(c) == c \in DigitChars
DigitsOnly(s) == SelectSeq(s, IsDigit)

\* f"+1 {c[:3]} {c[3:6]} {c[6:]}"
FormatPhone(c) ==
    <<"+", "1", " ">> \o Slice(c, 0, 3) \o <<" ">> \o Slice(c, 3, 6)
        \o <<" ">> \o Slice(c, 6, Len(c))

-----------------------------------------------------------------------------
(* LeadGenProcessor.clean_phone_number                                     *)

clean_phone_number(p) ==
    IF p = None \/ p = <<>>
    THEN None
    ELSE LET c == DigitsOnly(p) IN
         IF Len(c) = 10 THEN FormatPhone(c)
         ELSE IF Len(c) = 11 /\ c[1] = "1" THEN FormatPhone(Tail(c))
         ELSE None

-----------------------------------------------------------------------------
(* The email shape local@domain.tld                                        *)

LetterSet   == UpperSet \cup LowerSet
LocalChars  == LetterSet \cup DigitChars \cup {".", "_", "%", "+", "-"}
DomainChars == LetterSet \cup DigitChars \cup {".", "-"}

\* re.match(r'^[a-zA-Z0-9._%+-]+@[a-zA-Z0-9.-]+\.[a-zA-Z]{2,}$', s)
EmailPatternMatch(s) ==
    \E a, d \in DOMAIN s :
        /\ s[a] = "@" /\ s[d] = "."
        /\ a > 1 /\ d > a + 1 /\ Len(s) - d >= 2
        /\ \A k \in 1..(a - 1) : s[k] \in LocalChars
        /\ \A k \in (a + 1)..(d - 1) : s[k] \in DomainChars
        /\ \A k \in (d + 1)..Len(s) : s[k] \in LetterSet

-----------------------------------------------------------------------------
(* UniversalClickUpProcessor._clean_field_value                            *)

\* the strings the code compares with
S_nan   == <<"n","a","n">>
S_null  == <<"n","u","l","l">>
S_none  == <<"n","o","n","e">>
S_http  == <<"h","t","t","p",":","/","/">>
S_https == <<"h","t","t","p","s",":","/","/">>
S_zero  == <<"0">>

\* `not value or value.lower() in ['nan', 'null', 'none', '']`
IsAbsent(v) == v = <<>> \/ Lower(v) \in {S_nan, S_null, S_none, <<>>}

\* re.sub(r'[^\d.]', '', value)
IsDigitOrDot(c) == c \in DigitChars \/ c = "."
NumericOnly(s) == SelectSeq(s, IsDigitOrDot)

RECURSIVE DropLeadingZeros(_)
DropLeadingZeros(s) ==
    IF Len(s) > 1 /\ Head(s) = "0" THEN DropLeadingZeros(Tail(s)) ELSE s

RECURSIVE DropTrailingZeros(_)
DropTrailingZeros(s) ==
    IF Len(s) > 1 /\ s[Len(s)] = "0"
    THEN DropTrailingZeros(SubSeq(s, 1, Len(s) - 1))
    ELSE s

Raised == <<"<raised>">>

\* str(float(numeric)) for a string of digits and dots; float() raises
\* ValueError unless the string is digits, digits '.', '.' digits or
\* digits '.' digits.  (Exact for numerals short enough to print without an
\* exponent, which holds for every numeral the model generates.)
FloatStr(numeric) ==
    LET dots == {k \in DOMAIN numeric : numeric[k] = "."} IN
    IF Cardinality(dots) > 1 \/ DigitsOnly(numeric) = <<>>
    THEN Raised
    ELSE LET d     == IF dots = {} THEN Len(numeric) + 1
                      ELSE CHOOSE k \in dots : TRUE
             whole == SubSeq(numeric, 1, d - 1)
             frac  == SubSeq(numeric, d + 1, Len(numeric))
         IN  DropLeadingZeros(IF whole = <<>> THEN S_zero ELSE whole)
                 \o <<".">>
                 \o DropTrailingZeros(IF frac = <<>> THEN S_zero ELSE frac)

\* the loop `for field_name, field in self.discovered_fields.items()` that
\* stops at the first field with this id and type drop_down: its position
\* in the dict, 0 when the loop ends with field_info = None
DropDownFieldById(fields, fid) ==
    LET hits == {k \in DOMAIN fields :
                    fields[k].id = fid /\ fields[k].type = "drop_down"}
    IN  IF hits = {} THEN 0
        ELSE CHOOSE k \in hits : \A m \in hits : k <= m

\* value.lower() == option_name.lower()
ExactOption(v, name) == Lower(v) = Lower(name)

\* value.lower() in option_name.lower() or option_name.lower() in value.lower()
PartialOption(v, name) ==
    Contains(Lower(name), Lower(v)) \/ Contains(Lower(v), Lower(name))

\* CleanDropDown with one loop that takes the first option matching either way
CleanDropDown_one_loop(v, options) ==
    LET hit == {k \in DOMAIN options :
                   ExactOption(v, options[k].name)
                       \/ PartialOption(v, options[k].name)}
    IN  IF hit # {}
        THEN options[CHOOSE k \in hit : \A m \in hit : k <= m].id
        ELSE None

\* the two loops over field_info.options.items(), exact matches first
CleanDropDown(v, options) ==
    LET exact   == {k \in DOMAIN options : ExactOption(v, options[k].name)}
        partial == {k \in DOMAIN options : PartialOption(v, options[k].name)}
    IN  IF exact # {}
        THEN options[CHOOSE k \in exact : \A m \in exact : k <= m].id
        ELSE IF partial # {}
        THEN options[CHOOSE k \in partial : \A m \in partial : k <= m].id
        ELSE None

CleanEmail(v) ==
    IF "@" \in Range(v) /\ "." \in Range(v) THEN Lower(v) ELSE None

\* CleanPhone without the test of the country digit
CleanPhone_any_11(v) ==
    IF v = <<>> THEN None
    ELSE LET c == DigitsOnly(v) IN
         IF Len(c) = 10 THEN FormatPhone(c)
         ELSE IF Len(c) = 11 THEN FormatPhone(Tail(c))
         ELSE None


CleanPhone(v) ==
    IF v = <<>> THEN None
    ELSE LET c == DigitsOnly(v) IN
         IF Len(c) = 10 THEN FormatPhone(c)
         ELSE IF Len(c) = 11 /\ c[1] = "1" THEN FormatPhone(Tail(c))
         ELSE None

CleanUrl(v) ==
    IF v # <<>> /\ ~(StartsWith(v, S_http) \/ StartsWith(v, S_https))
    THEN S_https \o v
    ELSE v

CleanCurrency(v) ==
    LET r == FloatStr(NumericOnly(v)) IN
    IF r = Raised THEN S_zero ELSE r

_clean_field_value(raw, ftype, fid, fields) ==
    LET v == Strip(raw) IN
    IF IsAbsent(v) THEN None
    ELSE IF ftype = "email" THEN CleanEmail(v)
    ELSE IF ftype = "phone" THEN CleanPhone(v)
    ELSE IF ftype = "url" THEN CleanUrl(v)
    ELSE IF ftype = "drop_down" THEN
         LET field_info == DropDownFieldById(fields, fid) IN
         IF field_info # 0 /\ fields[field_info].options # <<>>
         THEN CleanDropDown(v, fields[field_info].options)
         ELSE None
    ELSE IF ftype = "currency" THEN CleanCurrency(v)
    ELSE v

-----------------------------------------------------------------------------
(* Inputs of the coercion functions                                        *)

Pending == <<"<pending>">>

\* all strings over the characters cs of length at most n
StringsUpTo(cs, n) == UNION {[1..k -> cs] : k \in 0..n}

Min(a, b) == IF a <= b THEN a ELSE b

\* the ways a CSV writes the digit string d
Punctuated(d) ==
    { d,
      <<"+">> \o d,
      <<" ">> \o d \o <<" ">>,
      <<"(">> \o SubSeq(d, 1, Min(3, Len(d))) \o <<")", " ">>
          \o SubSeq(d, 4, Min(6, Len(d))) \o <<"-">> \o SubSeq(d, 7, Len(d)) }

PhoneExamples ==
    { <<"(","5","5","5",")"," ","1","2","3","-","4","5","6","7">>,
      <<"1","5","5","5","1","2","3","4","5","6","7">>,
      <<"1","2","3">>,
      <<"n","a","n">> }

PhoneInputs ==
    PhoneExamples \cup UNION {Punctuated(d) : d \in StringsUpTo({"1", "5"}, MaxDigits)}

EmailExamples ==
    { <<"9","7","%"," ","J","a","n","e","@","E","x","a","m","p","l","e",
        ".","C","O","M"," ">>,
      <<"n","o","t","-","a","n","-","e","m","a","i","l">>,
      <<"j","a","n","e","@","x",".","c","o","m">> }

EmailPrefixes == { <<>>, <<"9","%">>, <<"9","%"," ">> }
EmailSuffixes == { <<>>, <<" ">> }

EmailInputs ==
    EmailExamples \cup
    { p \o b \o t : p \in EmailPrefixes,
                    b \in StringsUpTo({"a", "B", "@", "."}, MaxBody),
                    t \in EmailSuffixes }

IdChars == <<"1","2","3","4","5","6","7","8","9">>

\* the identifier ClickUp gave the k-th option of a field
OptionId(k) == <<"#", IdChars[k]>>

\* labels that equal, contain or only resemble one another
OptionLabels ==
    { <<"a">>, <<"A">>, <<"b">>, <<"a","b">>, <<"A","B">>, <<"b","a">>,
      <<"a"," ">>, <<"N","o","n","e">>, <<"F","i","n","a","n","c","e">> }

\* option tables: a dict has distinct keys, kept in insertion order
OptionTables ==
    { [k \in DOMAIN names |-> [name |-> names[k], id |-> OptionId(k)]] :
        names \in { t \in UNION {[1..n -> OptionLabels] : n \in 0..MaxOptions} :
                      \A a, b \in DOMAIN t : a # b => t[a] # t[b] } }

DropDownValues ==
    StringsUpTo({"a", "A", "b", " "}, MaxValue)
        \cup { <<"n","a","n">>, <<"N","o","n","e">>, <<"n","o","n","e">> }

FieldTypes == {"email", "phone", "url", "drop_down", "currency", "text"}

RawInputs ==
    StringsUpTo({"1", ".", "@", "a", " "}, MaxRaw)
        \cup { <<"h","t","t","p",":","/","/","a">>,
               <<"h","t","t","p","s",":","/","/","a">>,
               <<"$","1",",","0","5","0",".","5","0">>,
               <<"N","U","L","L">> }

\* ClickUpField(id, name, type, required, options)
Field(n, fid, t, opts) ==
    [name |-> n, id |-> fid, type |-> t, required |-> FALSE, options |-> opts]

F1 == <<"f","1">>
SampleOptions ==
    << [name |-> <<"a">>, id |-> OptionId(1)],
       [name |-> <<"1","a">>, id |-> OptionId(2)] >>

-----------------------------------------------------------------------------
(* Values of the variables of operations that are not running              *)

IdleCoerce ==
    /\ value = <<>> /\ field_type = "text" /\ field_id = F1
    /\ cleaned = Pending /\ phone = <<>> /\ lg_cleaned = Pending

IdleDedup == df = <<>> /\ deduped = <<>>

IdleUpload ==
    /\ leads = <<>> /\ i = 0 /\ phone_value = None /\ phone_field_id = None
    /\ task_payload = <<>> /\ task_id = None /\ success_count = 0
    /\ returned = None /\ calls = <<>>

IdleEmail == email = <<>> /\ email_cleaned = Pending /\ email_again = Pending

IdleGen ==
    /\ gen_columns = <<>> /\ gen_rows = 0 /\ headerless = "none"
    /\ gen_records = 0

IdleFiles == csv_files = <<>> /\ file_no = 0 /\ all_leads = <<>>

IdleBatch ==
    /\ lg_n = 0 /\ batch_size = 1 /\ batch_i = 0 /\ batch_j = 0
    /\ lg_calls = <<>> /\ task_ids = <<>>

IdleEst ==
    /\ revenue = <<>> /\ estimated = 0 /\ source = "none"
    /\ company_revenue = <<>> /\ estimated_value = <<>>

IdleLeadGen == IdleEmail /\ IdleEst /\ IdleGen /\ IdleFiles /\ IdleBatch

IdleMap == csv_headers = <<>> /\ csv_mapping = <<>>

IdleValidate == validated = <<>>

IdleRun ==
    /\ response = [kind |-> "none", tasks |-> <<>>]
    /\ csv_rows = <<>> /\ csv_readable = TRUE /\ test_mode = FALSE
    /\ result = "none"

IdleMore == IdleLeadGen /\ IdleMap /\ IdleValidate /\ IdleRun

-----------------------------------------------------------------------------
(* The coercion functions applied to one input                             *)

\* cleaned_value = self._clean_field_value(str(value), field_info.type, field_info.id)
CleanFieldValueCall ==
    /\ pc = "coerce"
    /\ cleaned = Pending
    /\ cleaned' = _clean_field_value(value, field_type, field_id, discovered_fields)
    /\ UNCHANGED <<pc, value, field_type, field_id, phone, lg_cleaned,
                   discovered_fields, dedup_vars, upload_vars,
                   more_vars>>

\* self.clean_phone_number(phone)
CleanPhoneNumberCall ==
    /\ pc = "coerce"
    /\ lg_cleaned = Pending
    /\ lg_cleaned' = clean_phone_number(phone)
    /\ UNCHANGED <<pc, value, field_type, field_id, phone, cleaned,
                   discovered_fields, dedup_vars, upload_vars,
                   more_vars>>

\* phone coercion: both processors on the same cell
InitPhone ==
    /\ pc = "coerce"
    /\ value \in PhoneInputs
    /\ phone \in (IF value = <<>> THEN {<<>>, None} ELSE {value})
    /\ field_type = "phone" /\ field_id = F1
    /\ discovered_fields = << Field(<<"P">>, F1, "phone", <<>>) >>
    /\ cleaned = Pending /\ lg_cleaned = Pending
    /\ IdleDedup /\ IdleUpload /\ IdleMore

NextPhone == CleanFieldValueCall \/ CleanPhoneNumberCall

SpecPhone == InitPhone /\ [][NextPhone]_vars

\* email coercion of the universal processor
InitEmail ==
    /\ pc = "coerce"
    /\ value \in EmailInputs
    /\ phone = <<>> /\ lg_cleaned = Pending
    /\ field_type = "email" /\ field_id = F1
    /\ discovered_fields = << Field(<<"E">>, F1, "email", <<>>) >>
    /\ cleaned = Pending
    /\ IdleDedup /\ IdleUpload /\ IdleMore

NextEmail == CleanFieldValueCall

SpecEmail == InitEmail /\ [][NextEmail]_vars

\* drop_down coercion against every option table
InitDropDown ==
    /\ pc = "coerce"
    /\ value \in DropDownValues
    /\ phone = <<>> /\ lg_cleaned = Pending
    /\ field_type = "drop_down" /\ field_id = F1
    /\ discovered_fields \in
          { << Field(<<"D">>, F1, "drop_down", t) >> : t \in OptionTables }
    /\ cleaned = Pending
    /\ IdleDedup /\ IdleUpload /\ IdleMore

NextDropDown == CleanFieldValueCall

SpecDropDown == InitDropDown /\ [][NextDropDown]_vars

\* every field type on every raw value
InitCoerce ==
    /\ pc = "coerce"
    /\ value \in RawInputs
    /\ phone = <<>> /\ lg_cleaned = Pending
    /\ field_type \in FieldTypes /\ field_id = F1
    /\ discovered_fields =
          << Field(<<"F">>, F1, field_type,
                   IF field_type = "drop_down" THEN SampleOptions ELSE <<>>) >>
    /\ cleaned = Pending
    /\ IdleDedup /\ IdleUpload /\ IdleMore

NextCoerce == CleanFieldValueCall

SpecCoerce == InitCoerce /\ [][NextCoerce]_vars

-----------------------------------------------------------------------------
(* Claims about the coercion functions                                     *)

TheOptions == discovered_fields[1].options

\* the first position of a non-empty set of positions
First(ks) == CHOOSE k \in ks : \A m \in ks : k <= m

\* the substring after the last '%', the whole string when it has none
AfterLastPercent(s) ==
    LET ps == {k \in DOMAIN s : s[k] = "%"} IN
    IF ps = {} THEN s
    ELSE SubSeq(s, (CHOOSE k \in ps : \A m \in ps : m <= k) + 1, Len(s))

\* C6: for a single-select field, a raw value equal to an option label
\* ignoring case is coerced to the identifier of an option it equals
\* ignoring case, and to the identifier of the option it equals letter for
\* letter when there is one; never to the identifier of a different option,
\* whatever the other labels of the table are.
C6_ExactLabelGivesItsOption ==
    (pc = "coerce" /\ field_type = "drop_down" /\ cleaned # Pending
        /\ ~IsAbsent(Strip(value)))
    => \A k \in DOMAIN TheOptions :
          /\ Lower(value) = Lower(TheOptions[k].name)
                => \E m \in DOMAIN TheOptions :
                      /\ Lower(value) = Lower(TheOptions[m].name)
                      /\ cleaned = TheOptions[m].id
          /\ value = TheOptions[k].name => cleaned = TheOptions[k].id

\* C7: for a single-select field the result is omit or an identifier of the
\* field's option table: the first option equal to the value ignoring case
\* when there is one, otherwise the first option containing the value or
\* contained in it, otherwise omit (an absent value is always omitted).
C7_DropDownResultFromTable ==
    (pc = "coerce" /\ field_type = "drop_down" /\ cleaned # Pending)
    => LET v  == Lower(Strip(value))
           eq == {k \in DOMAIN TheOptions : Lower(TheOptions[k].name) = v}
           in == {k \in DOMAIN TheOptions :
                     \/ Contains(Lower(TheOptions[k].name), v)
                     \/ Contains(v, Lower(TheOptions[k].name))}
       IN  /\ cleaned \in {None} \cup {TheOptions[k].id : k \in DOMAIN TheOptions}
           /\ IsAbsent(Strip(value)) => cleaned = None
           /\ (~IsAbsent(Strip(value)) /\ eq # {})
                 => cleaned = TheOptions[First(eq)].id
           /\ (~IsAbsent(Strip(value)) /\ eq = {} /\ in # {})
                 => cleaned = TheOptions[First(in)].id
           /\ (eq = {} /\ in = {}) => cleaned = None

\* a later option matches exactly while an earlier one only contains the value
C7_Witness ==
    /\ pc = "coerce" /\ field_type = "drop_down" /\ cleaned # Pending
    /\ Len(TheOptions) = 2
    /\ Lower(TheOptions[1].name) # Lower(value)
    /\ Contains(Lower(TheOptions[1].name), Lower(value))
    /\ Lower(TheOptions[2].name) = Lower(value)
    /\ cleaned = TheOptions[2].id

\* the digits of s, in order
Digits(s) == SelectSeq(s, LAMBDA c : c \in DigitChars)

\* '+1 XXX XXX XXXX' of ten digits
Grouped(d) ==
    <<"+", "1", " ", d[1], d[2], d[3], " ", d[4], d[5], d[6], " ",
      d[7], d[8], d[9], d[10]>>

ExpectedPhone(s) ==
    LET d == Digits(s) IN
    IF Len(d) = 10 THEN Grouped(d)
    ELSE IF Len(d) = 11 /\ d[1] = "1" THEN Grouped(Tail(d))
    ELSE None

\* what the field types call malformed
Malformed(t, v) ==
    LET w == Strip(v) IN
    CASE t = "email"     -> ~EmailPatternMatch(Strip(AfterLastPercent(Lower(w))))
      [] t = "phone"     -> ExpectedPhone(w) = None
      [] t = "drop_down" -> \A k \in DOMAIN TheOptions :
                               /\ ~Contains(Lower(TheOptions[k].name), Lower(w))
                               /\ ~Contains(Lower(w), Lower(TheOptions[k].name))
      [] t = "currency"  -> FloatStr(NumericOnly(w)) = Raised
      [] OTHER           -> FALSE

\* C8: _clean_field_value never raises, and an input that is malformed for
\* the field's type is omitted, for every field type.
C8_MalformedIsOmitted ==
    (pc = "coerce" /\ cleaned # Pending)
    => /\ cleaned # Raised
       /\ Malformed(field_type, value) => cleaned = None

\* C9: phone coercion keeps the digits d of the input; 10 digits give
\* '+1 ddd ddd dddd', 11 digits starting with 1 give the same of the last
\* 10, anything else is omitted (both processors).
C9_PhoneCoercion ==
    (pc = "coerce" /\ field_type = "phone")
    => /\ cleaned # Pending => cleaned = ExpectedPhone(value)
       /\ (lg_cleaned # Pending /\ phone # None)
             => lg_cleaned = ExpectedPhone(phone)

\* a punctuated number with a country digit was formatted by both
C9_Witness ==
    /\ pc = "coerce" /\ field_type = "phone"
    /\ Len(Digits(value)) = 11 /\ Len(value) > 11
    /\ cleaned # Pending /\ cleaned # None
    /\ lg_cleaned = cleaned

\* C10: an email-typed value is emitted trimmed, lowercase, in the shape
\* local@domain.tld and without its confidence prefix; everything else is
\* omitted.
C10_EmailCoercion ==
    (pc = "coerce" /\ field_type = "email" /\ cleaned # Pending)
    => LET e == Strip(AfterLastPercent(Lower(Strip(value)))) IN
       cleaned = IF EmailPatternMatch(e) THEN e ELSE None

-----------------------------------------------------------------------------
(* LeadGenProcessor.deduplicate_leads                                      *)

\* df[col].notna() at row k
NotNa(frame, k, col) == frame[k][col] # None

\* df[mask].duplicated(subset=cols, keep='first'), expanded to the full
\* frame: row k is in the mask and an earlier row of the mask has the same
\* values in every column of cols
DuplicatedKeepFirst(frame, mask, cols) ==
    [k \in DOMAIN frame |->
        /\ mask[k]
        /\ \E j \in 1..(k - 1) :
              mask[j] /\ \A c \in cols : frame[j][c] = frame[k][c]]

\* email_dupes_full with duplicated() run on the whole frame, where pandas
\* takes two missing emails for equal
email_dupes_full_unmasked(frame) ==
    DuplicatedKeepFirst(frame, [k \in DOMAIN frame |-> TRUE], {"email"})

email_dupes_full(frame) ==
    DuplicatedKeepFirst(frame,
                        [k \in DOMAIN frame |-> NotNa(frame, k, "email")],
                        {"email"})

company_name_dupes_full(frame) ==
    DuplicatedKeepFirst(frame,
                        [k \in DOMAIN frame |->
                            NotNa(frame, k, "company") /\ NotNa(frame, k, "name")],
                        {"company", "name"})

\* all_dupes with the masks combined by & instead of |
all_dupes_both(frame) ==
    [k \in DOMAIN frame |->
        email_dupes_full(frame)[k] /\ company_name_dupes_full(frame)[k]]


all_dupes(frame) ==
    [k \in DOMAIN frame |->
        email_dupes_full(frame)[k] \/ company_name_dupes_full(frame)[k]]

\* df[~all_dupes].copy()
deduplicate_leads(frame) ==
    LET dupes == all_dupes(frame)
        RECURSIVE Keep(_)
        Keep(k) == IF k > Len(frame) THEN <<>>
                   ELSE (IF dupes[k] THEN <<>> ELSE <<frame[k]>>) \o Keep(k + 1)
    IN  Keep(1)

Emails    == {None, <<"x">>, <<"y">>}
Companies == {None, <<"c">>}
Names     == {None, <<"n">>, <<"m">>}

\* the frames pd.concat(all_leads, ignore_index=True) can give: row k has
\* index label k
Frames ==
    UNION { [1..n -> [email : Emails, company : Companies, name : Names]] :
              n \in 0..MaxRecords }

WithIndex(rows) ==
    [k \in DOMAIN rows |->
        [index |-> k, email |-> rows[k].email, company |-> rows[k].company,
         name |-> rows[k].name]]

InitDedup ==
    /\ pc = "dedup"
    /\ df \in {WithIndex(rows) : rows \in Frames}
    /\ deduped = <<>>
    /\ discovered_fields = <<>>
    /\ IdleCoerce /\ IdleUpload /\ IdleMore

DeduplicateLeads ==
    /\ pc = "dedup"
    /\ deduped' = deduplicate_leads(df)
    /\ pc' = "deduped"
    /\ UNCHANGED <<df, discovered_fields, coerce_vars, upload_vars,
                   more_vars>>

NextDedup == DeduplicateLeads

SpecDedup == InitDedup /\ [][NextDedup]_vars

\* C1: of the records carrying a non-empty email exactly one survives
\* deduplicate_leads, and it is the first of them in input order.
C1_FirstOfEachEmailSurvives ==
    pc = "deduped"
    => \A k \in DOMAIN df :
          df[k].email # None
          => LET same  == {j \in DOMAIN df : df[j].email = df[k].email}
                 alive == {m \in DOMAIN deduped :
                              deduped[m].email = df[k].email}
             IN  /\ Cardinality(alive) = 1
                 /\ \A m \in alive : deduped[m].index = First(same)

\* the row repeats the non-null company and name of an earlier row
RepeatsCompanyName(k) ==
    /\ df[k].company # None /\ df[k].name # None
    /\ \E j \in 1..(k - 1) :
          df[j].company = df[k].company /\ df[j].name = df[k].name

\* C1 (amended): of the records carrying a non-empty email at most one
\* survives deduplicate_leads: the first of them in input order, unless that
\* record repeats the company and name of an earlier record, and then none.
C1_FirstOfEachEmailUnlessRepeated ==
    pc = "deduped"
    => \A k \in DOMAIN df :
          df[k].email # None
          => LET same  == {j \in DOMAIN df : df[j].email = df[k].email}
                 alive == {deduped[m].index : m \in
                              {n \in DOMAIN deduped :
                                  deduped[n].email = df[k].email}}
             IN  alive = IF RepeatsCompanyName(First(same)) THEN {}
                         ELSE {First(same)}

\* the second record repeats the first one's company and name, the third
\* shares the second one's email, and nobody with that email is left
C1_Witness ==
    /\ pc = "deduped"
    /\ Len(df) = 3
    /\ df[2].email # None /\ df[2].email # df[1].email
    /\ RepeatsCompanyName(2)
    /\ df[3].email = df[2].email /\ ~RepeatsCompanyName(3)
    /\ \A m \in DOMAIN deduped : deduped[m].email # df[2].email

-----------------------------------------------------------------------------
(* UniversalClickUpProcessor._upload_to_clickup                            *)

\* Python truth of a str or None
Truthy(v) == v # None /\ v # <<>>

\* the inner loop over self.discovered_fields.items(): some field has this
\* id and type phone
IsPhoneField(fields, fid) ==
    \E f \in DOMAIN fields : fields[f].id = fid /\ fields[f].type = "phone"

\* del lead_data_copy[field_id]
DelKey(d, fid) == SelectSeq(d, LAMBDA e : e.id # fid)

\* the loop `for field_id, value in list(lead_data_copy.items())` from the
\* k-th item of the snapshot on, ended by `if phone_value: break`
RECURSIVE ExtractPhone(_, _, _, _)
ExtractPhone(fields, items, k, st) ==
    IF k > Len(items) THEN st
    ELSE LET e  == items[k]
             s2 == IF IsPhoneField(fields, e.id)
                   THEN [phone_value    |-> e.value,
                         phone_field_id |-> e.id,
                         lead_data_copy |-> DelKey(st.lead_data_copy, e.id)]
                   ELSE st
         IN  IF Truthy(s2.phone_value) THEN s2
             ELSE ExtractPhone(fields, items, k + 1, s2)

\* lines 454-484: phone_value, phone_field_id and the custom_fields of
\* task_payload for one lead
BuildTaskPayload(fields, lead_data) ==
    ExtractPhone(fields, lead_data, 1,
                 [phone_value |-> None, phone_field_id |-> None,
                  lead_data_copy |-> lead_data])

\* the board of the upload runs: one email field and two phone fields
FE == <<"f","E">>
FP == <<"f","P">>
FM == <<"f","M">>

UploadFields ==
    << Field(<<"E","m","a","i","l">>, FE, "email", <<>>),
       Field(<<"P","h","o","n","e">>, FP, "phone", <<>>),
       Field(<<"M","o","b","i","l","e">>, FM, "phone", <<>>) >>

\* the value _clean_and_process_data stored under a field id
CellOf(fid) ==
    CASE fid = FE -> <<"a","@","b",".","c","o">>
      [] fid = FP -> FormatPhone(<<"5","5","5","1","2","3","4","5","6","7">>)
      [] fid = FM -> FormatPhone(<<"5","5","5","7","6","5","4","3","2","1">>)

\* lead_data dicts: distinct field ids in any insertion order
LeadDicts ==
    { [k \in DOMAIN ids |-> [id |-> ids[k], value |-> CellOf(ids[k])]] :
        ids \in { t \in UNION {[1..n -> {FE, FP, FM}] : n \in 0..3} :
                    \A a, b \in DOMAIN t : a # b => t[a] # t[b] } }

\* the identifier ClickUp gives the n-th task it creates
NewTaskId(n) == <<"t", IdChars[n]>>

Created(log) == {c \in DOMAIN log : log[c].op = "create" /\ log[c].status = "ok"}

InitUpload ==
    /\ pc = "loop"
    /\ leads \in UNION {[1..n -> LeadDicts] : n \in 0..MaxLeads}
    /\ discovered_fields = UploadFields
    /\ i = 0 /\ phone_value = None /\ phone_field_id = None
    /\ task_payload = <<>> /\ task_id = None /\ success_count = 0
    /\ returned = None /\ calls = <<>>
    /\ IdleCoerce /\ IdleDedup /\ IdleMore

\* NextLead with `lead_data_copy = lead_data`: the phone is deleted from
\* the lead of the input list
NextLead_no_copy ==
    /\ pc = "loop"
    /\ i < Len(leads)
    /\ i' = i + 1
    /\ LET st == BuildTaskPayload(discovered_fields, leads[i + 1]) IN
          /\ phone_value' = st.phone_value
          /\ phone_field_id' = st.phone_field_id
          /\ task_payload' = st.lead_data_copy
          /\ leads' = [leads EXCEPT ![i + 1] = st.lead_data_copy]
    /\ pc' = "create"
    /\ UNCHANGED <<discovered_fields, task_id, success_count, returned,
                   calls, coerce_vars, dedup_vars,
                   more_vars>>

\* `for i, lead_data in enumerate(leads, 1)` enters the body: lines 453-486
NextLead ==
    /\ pc = "loop"
    /\ i < Len(leads)
    /\ i' = i + 1
    /\ LET st == BuildTaskPayload(discovered_fields, leads[i + 1]) IN
          /\ phone_value' = st.phone_value
          /\ phone_field_id' = st.phone_field_id
          /\ task_payload' = st.lead_data_copy
    /\ pc' = "create"
    /\ UNCHANGED <<leads, discovered_fields, task_id, success_count, returned,
                   calls, coerce_vars, dedup_vars,
                   more_vars>>

CreateCall(status, tid) ==
    [op |-> "create", lead |-> i, task |-> tid, status |-> status,
     custom_fields |-> task_payload]

\* requests.post answers 200: lines 492-495, and 519 when there is no phone
CreateOk ==
    /\ pc = "create"
    /\ LET tid == NewTaskId(Cardinality(Created(calls)) + 1) IN
          /\ calls' = Append(calls, CreateCall("ok", tid))
          /\ task_id' = tid
    /\ IF Truthy(phone_value) /\ Truthy(phone_field_id)
       THEN pc' = "update" /\ UNCHANGED success_count
       ELSE pc' = "loop" /\ success_count' = success_count + 1
    /\ UNCHANGED <<leads, discovered_fields, i, phone_value, phone_field_id,
                   task_payload, returned, coerce_vars, dedup_vars,
                   more_vars>>

\* CreateFailed with success_count += 1 outside the status test
CreateFailed_counted ==
    /\ pc = "create"
    /\ calls' = Append(calls, CreateCall("failed", None))
    /\ success_count' = success_count + 1
    /\ pc' = "loop"
    /\ UNCHANGED <<leads, discovered_fields, i, phone_value, phone_field_id,
                   task_payload, task_id, returned, coerce_vars, dedup_vars,
                   more_vars>>

\* requests.post answers another status: lines 520-521
CreateFailed ==
    /\ pc = "create"
    /\ calls' = Append(calls, CreateCall("failed", None))
    /\ pc' = "loop"
    /\ UNCHANGED <<leads, discovered_fields, i, phone_value, phone_field_id,
                   task_payload, task_id, success_count, returned,
                   coerce_vars, dedup_vars,
                   more_vars>>

\* CreateRaised with the exception leaving the for loop
CreateRaised_aborts ==
    /\ pc = "create"
    /\ calls' = Append(calls, CreateCall("raised", None))
    /\ returned' = success_count
    /\ pc' = "done"
    /\ UNCHANGED <<leads, discovered_fields, i, phone_value, phone_field_id,
                   task_payload, task_id, success_count,
                   coerce_vars, dedup_vars,
                   more_vars>>

\* requests.post raises: lines 523-524
CreateRaised ==
    /\ pc = "create"
    /\ calls' = Append(calls, CreateCall("raised", None))
    /\ pc' = "loop"
    /\ UNCHANGED <<leads, discovered_fields, i, phone_value, phone_field_id,
                   task_payload, task_id, success_count, returned,
                   coerce_vars, dedup_vars,
                   more_vars>>

\* UpdateCall with the phone added to the fields of the create payload
UpdateCall_all_fields(status) ==
    [op |-> "update", lead |-> i, task |-> task_id, status |-> status,
     custom_fields |->
         Append(task_payload, [id |-> phone_field_id, value |-> phone_value])]


UpdateCall(status) ==
    [op |-> "update", lead |-> i, task |-> task_id, status |-> status,
     custom_fields |-> << [id |-> phone_field_id, value |-> phone_value] >>]

\* requests.put answers 200: lines 513-514 and 519
UpdateOk ==
    /\ pc = "update"
    /\ calls' = Append(calls, UpdateCall("ok"))
    /\ success_count' = success_count + 1
    /\ pc' = "loop"
    /\ UNCHANGED <<leads, discovered_fields, i, phone_value, phone_field_id,
                   task_payload, task_id, returned, coerce_vars, dedup_vars,
                   more_vars>>

\* requests.put answers another status: lines 515-519
UpdateFailed ==
    /\ pc = "update"
    /\ calls' = Append(calls, UpdateCall("failed"))
    /\ success_count' = success_count + 1
    /\ pc' = "loop"
    /\ UNCHANGED <<leads, discovered_fields, i, phone_value, phone_field_id,
                   task_payload, task_id, returned, coerce_vars, dedup_vars,
                   more_vars>>

\* requests.put raises: the except clause of lines 523-524 ends the body
UpdateRaised ==
    /\ pc = "update"
    /\ calls' = Append(calls, UpdateCall("raised"))
    /\ pc' = "loop"
    /\ UNCHANGED <<leads, discovered_fields, i, phone_value, phone_field_id,
                   task_payload, task_id, success_count, returned,
                   coerce_vars, dedup_vars,
                   more_vars>>

\* the loop is exhausted: line 526
ReturnCount ==
    /\ pc = "loop"
    /\ i = Len(leads)
    /\ returned' = success_count
    /\ pc' = "done"
    /\ UNCHANGED <<leads, discovered_fields, i, phone_value, phone_field_id,
                   task_payload, task_id, success_count, calls,
                   coerce_vars, dedup_vars,
                   more_vars>>

NextUpload ==
    \/ NextLead
    \/ CreateOk
    \/ CreateFailed
    \/ CreateRaised
    \/ UpdateOk
    \/ UpdateFailed
    \/ UpdateRaised
    \/ ReturnCount

SpecUpload == InitUpload /\ [][NextUpload]_vars

-----------------------------------------------------------------------------
(* Claims about _upload_to_clickup                                         *)

\* the calls of one kind made for the k-th lead
CallsOf(kind, k) ==
    {c \in DOMAIN calls : calls[c].op = kind /\ calls[c].lead = k}

\* the type of the field with this id
TypeOf(fid) ==
    discovered_fields[CHOOSE f \in DOMAIN discovered_fields :
                         discovered_fields[f].id = fid].type

HasPhone(lead_data) == \E k \in DOMAIN lead_data : TypeOf(lead_data[k].id) = "phone"

\* the lead was handled: the loop has moved on from it
Handled(k) == k < i \/ (k = i /\ pc \in {"loop", "done"})

\* C2: the create payload of every lead holds every field of the lead whose
\* type is not phone, and no field whose type is phone.
C2_CreatePayloadHasNoPhone ==
    pc \in {"loop", "create", "update", "done"}
    => \A c \in DOMAIN calls :
          calls[c].op = "create"
          => /\ Range(calls[c].custom_fields)
                  = {e \in Range(leads[calls[c].lead]) : TypeOf(e.id) # "phone"}
             /\ \A e \in Range(calls[c].custom_fields) : TypeOf(e.id) # "phone"

\* C3: an update is sent only for a lead that has a phone and whose create
\* succeeded; it directly follows that create, addresses the task the create
\* returned and carries one field, a phone of the lead.  A handled lead
\* with a phone and a successful create has one create and then one update.
C3_UpdateFollowsItsCreate ==
    pc \in {"loop", "create", "update", "done"}
    => /\ \A u \in DOMAIN calls :
             calls[u].op = "update"
             => /\ u > 1
                /\ calls[u - 1].op = "create"
                /\ calls[u - 1].status = "ok"
                /\ calls[u - 1].lead = calls[u].lead
                /\ calls[u].task = calls[u - 1].task
                /\ HasPhone(leads[calls[u].lead])
                /\ Len(calls[u].custom_fields) = 1
                /\ TypeOf(calls[u].custom_fields[1].id) = "phone"
                /\ calls[u].custom_fields[1] \in Range(leads[calls[u].lead])
       /\ \A k \in DOMAIN leads :
             (Handled(k) /\ HasPhone(leads[k])
                 /\ \E c \in CallsOf("create", k) : calls[c].status = "ok")
             => /\ Cardinality(CallsOf("create", k)) = 1
                /\ Cardinality(CallsOf("update", k)) = 1

\* two leads with a phone were created and updated, each under its own task
C3_Witness ==
    /\ pc = "done"
    /\ Len(calls) = 4
    /\ calls[2].op = "update" /\ calls[4].op = "update"
    /\ calls[2].task # calls[4].task

\* C4: the step that receives the answer to a phone update, whatever the
\* answer, counts the lead, sends nothing else and goes on to the next lead.
C4_FailedUpdateStillCounts ==
    [][ pc = "update"
        => /\ success_count' = success_count + 1
           /\ pc' = "loop"
           /\ Len(calls') = Len(calls) + 1
           /\ calls'[Len(calls')].op = "update" ]_vars

\* C5: a lead whose create fails gets no update and is not counted, and
\* every lead of the batch still gets its create.
C5_FailedCreateIsSkipped ==
    pc \in {"loop", "create", "update", "done"}
    => /\ \A k \in DOMAIN leads :
             (\E c \in CallsOf("create", k) : calls[c].status # "ok")
             => CallsOf("update", k) = {}
       /\ success_count <= Cardinality(Created(calls))
       /\ \A k \in DOMAIN leads :
             Handled(k) => Cardinality(CallsOf("create", k)) = 1
       /\ pc = "done" => i = Len(leads) /\ returned = success_count

\* the first create failed, by status or by error, and the second lead was
\* still created and counted
C5_Witness ==
    /\ pc = "done"
    /\ Len(leads) = 2
    /\ HasPhone(leads[1])
    /\ calls[1].op = "create" /\ calls[1].status # "ok"
    /\ calls[2].op = "create" /\ calls[2].status = "ok"
    /\ returned = 1

-----------------------------------------------------------------------------
(* LeadGenProcessor.clean_email                                            *)

\* email_str.split('%', 1)[1]: the text after the first '%'
AfterFirstPercent(s) ==
    LET ps == {k \in DOMAIN s : s[k] = "%"} IN
    SubSeq(s, (CHOOSE k \in ps : \A m \in ps : k <= m) + 1, Len(s))

clean_email(e) ==
    IF e = None \/ e = <<>>
    THEN None
    ELSE LET email_str == Lower(Strip(e))
             addr      == IF "%" \in Range(email_str)
                          THEN Strip(AfterFirstPercent(email_str))
                          ELSE email_str
         IN  IF EmailPatternMatch(addr) THEN addr ELSE None

CleanEmailPrefixes ==
    { <<>>, <<"9","%">>, <<"9","%"," ">>, <<"5","%","9","%">>,
      <<"5","%"," ","9","%"," ">> }

CleanEmailInputs ==
    {None} \cup EmailExamples \cup
    { p \o b \o t : p \in CleanEmailPrefixes,
                    b \in StringsUpTo({"a", "B", "@", "."}, MaxBody),
                    t \in EmailSuffixes }

InitCleanEmail ==
    /\ pc = "clean_email"
    /\ email \in CleanEmailInputs
    /\ email_cleaned = Pending /\ email_again = Pending
    /\ discovered_fields = <<>>
    /\ IdleCoerce /\ IdleDedup /\ IdleUpload
    /\ IdleMap /\ IdleValidate /\ IdleRun
    /\ IdleEst /\ IdleGen /\ IdleFiles /\ IdleBatch

\* self.clean_email(email)
CleanEmailCall ==
    /\ pc = "clean_email"
    /\ email_cleaned = Pending
    /\ email_cleaned' = clean_email(email)
    /\ UNCHANGED <<pc, email, email_again, discovered_fields, coerce_vars,
                   dedup_vars, upload_vars, map_vars, validated, run_vars,
                   est_vars, gen_vars, files_vars, batch_vars>>

NextCleanEmail == CleanEmailCall

SpecCleanEmail == InitCleanEmail /\ [][NextCleanEmail]_vars

\* C11: for an input with one or more '%', clean_email validates and
\* returns the trimmed, lowercased text after the last '%'; no text before
\* the last '%' is in the result.
C11_TextAfterLastPercent ==
    (pc = "clean_email" /\ email_cleaned # Pending /\ email # None
        /\ "%" \in Range(email))
    => LET e == Strip(AfterLastPercent(Lower(Strip(email)))) IN
       email_cleaned = IF EmailPatternMatch(e) THEN e ELSE None

-----------------------------------------------------------------------------
(* UniversalClickUpProcessor._intelligent_csv_mapping                      *)

\* field_patterns, in the order of the dict
field_patterns ==
    << [type |-> "email",
        patterns |-> << <<"e","m","a","i","l">>,
                       <<"e","m","a","i","l","_","a","d","d","r","e","s","s">>,
                       <<"e","-","m","a","i","l">>,
                       <<"m","a","i","l">>,
                       <<"c","o","n","t","a","c","t","_","e","m","a","i","l">> >>],
       [type |-> "company",
        patterns |-> << <<"c","o","m","p","a","n","y">>,
                       <<"c","o","m","p","a","n","y","_","n","a","m","e">>,
                       <<"o","r","g","a","n","i","z","a","t","i","o","n">>,
                       <<"b","u","s","i","n","e","s","s">>,
                       <<"f","i","r","m">> >>],
       [type |-> "phone",
        patterns |-> << <<"p","h","o","n","e">>,
                       <<"p","h","o","n","e","_","n","u","m","b","e","r">>,
                       <<"t","e","l","e","p","h","o","n","e">>,
                       <<"m","o","b","i","l","e">>,
                       <<"c","e","l","l">> >>],
       [type |-> "name",
        patterns |-> << <<"n","a","m","e">>,
                       <<"f","u","l","l","_","n","a","m","e">>,
                       <<"c","o","n","t","a","c","t","_","n","a","m","e">>,
                       <<"p","e","r","s","o","n">>,
                       <<"l","e","a","d","_","n","a","m","e">> >>],
       [type |-> "title",
        patterns |-> << <<"t","i","t","l","e">>,
                       <<"j","o","b","_","t","i","t","l","e">>,
                       <<"p","o","s","i","t","i","o","n">>,
                       <<"r","o","l","e">> >>],
       [type |-> "website",
        patterns |-> << <<"w","e","b","s","i","t","e">>,
                       <<"u","r","l">>,
                       <<"w","e","b">>,
                       <<"s","i","t","e">>,
                       <<"l","i","n","k","e","d","i","n">> >>],
       [type |-> "notes",
        patterns |-> << <<"n","o","t","e","s">>,
                       <<"c","o","m","m","e","n","t","s">>,
                       <<"d","e","s","c","r","i","p","t","i","o","n">>,
                       <<"r","e","m","a","r","k","s">>,
                       <<"l","e","a","d","_","n","o","t","e","s">> >>],
       [type |-> "source",
        patterns |-> << <<"s","o","u","r","c","e">>,
                       <<"i","m","p","o","r","t">>,
                       <<"o","r","i","g","i","n">>,
                       <<"c","h","a","n","n","e","l">> >>],
       [type |-> "industry",
        patterns |-> << <<"i","n","d","u","s","t","r","y">>,
                       <<"s","e","c","t","o","r">>,
                       <<"b","u","s","i","n","e","s","s","_","t","y","p","e">>,
                       <<"c","a","t","e","g","o","r","y">> >>],
       [type |-> "status",
        patterns |-> << <<"s","t","a","t","u","s">>,
                       <<"s","t","a","g","e">>,
                       <<"o","p","p","o","r","t","u","n","i","t","y","_","s","t","a","g","e">> >>],
       [type |-> "value",
        patterns |-> << <<"v","a","l","u","e">>,
                       <<"e","s","t","i","m","a","t","e","d","_","v","a","l","u","e">>,
                       <<"d","e","a","l","_","v","a","l","u","e">>,
                       <<"r","e","v","e","n","u","e">> >>] >>

Max(a, b) == IF a >= b THEN a ELSE b

\* max([len(p) for p in patterns if p in csv_lower])
LongestPatternIn(patterns, csv_lower) ==
    LET ls == {Len(patterns[k]) : k \in
                 {j \in DOMAIN patterns : Contains(csv_lower, patterns[j])}}
    IN  CHOOSE l \in ls : \A m \in ls : m <= l

\* any(pattern in text for pattern in patterns)
AnyPatternIn(patterns, text) ==
    \E k \in DOMAIN patterns : Contains(text, patterns[k])

\* BetterMatch with `>=`: a later field of equal score replaces the earlier
BetterMatch_or_equal(best, f, score) ==
    IF score >= best.best_score /\ score > 0
    THEN [best_match |-> f, best_score |-> score]
    ELSE best

\* `if score > best_score: best_match = field; best_score = score`
BetterMatch(best, f, score) ==
    IF score > best.best_score
    THEN [best_match |-> f, best_score |-> score]
    ELSE best

\* the loop over field_patterns.items() for one field, from category k on
RECURSIVE PatternMatching(_, _, _, _, _)
PatternMatching(k, csv_lower, field_lower, f, best) ==
    IF k > Len(field_patterns) THEN best
    ELSE LET patterns == field_patterns[k].patterns
             b2 == IF AnyPatternIn(patterns, field_lower)
                        /\ AnyPatternIn(patterns, csv_lower)
                   THEN BetterMatch(best, f,
                                    LongestPatternIn(patterns, csv_lower))
                   ELSE best
         IN  PatternMatching(k + 1, csv_lower, field_lower, f, b2)

\* the partial match of one field
PartialMatch(csv_lower, field_lower, f, best) ==
    IF Contains(field_lower, csv_lower) \/ Contains(csv_lower, field_lower)
    THEN BetterMatch(best, f, Min(Len(csv_lower), Len(field_lower)))
    ELSE best

\* the loop over self.discovered_fields.items() from field f on: the field
\* that matched exactly (0 when the loop ends without break) and the best
\* match seen (best_match 0 for None)
RECURSIVE ScanFields(_, _, _, _)
ScanFields(fields, f, csv_lower, best) ==
    IF f > Len(fields) THEN [exact |-> 0, best |-> best]
    ELSE LET field_lower == Lower(fields[f].name) IN
         IF csv_lower = field_lower THEN [exact |-> f, best |-> best]
         ELSE ScanFields(fields, f + 1, csv_lower,
                  PatternMatching(1, csv_lower, field_lower, f,
                      PartialMatch(csv_lower, field_lower, f, best)))

\* `key in d` and d[key] of a dict
HasKey(d, key) == \E k \in DOMAIN d : d[k].key = key
Get(d, key) == d[CHOOSE k \in DOMAIN d : d[k].key = key].value

\* d[key] = v: a new key goes to the end, an old key keeps its place
Put(d, key, v) ==
    IF HasKey(d, key)
    THEN [k \in DOMAIN d |-> IF d[k].key = key THEN [key |-> key, value |-> v]
                             ELSE d[k]]
    ELSE Append(d, [key |-> key, value |-> v])

\* MapHeader that lets the best match replace an exact match
MapHeader_best_wins(fields, mapping, csv_header) ==
    LET r  == ScanFields(fields, 1, Strip(Lower(csv_header)),
                         [best_match |-> 0, best_score |-> 0])
        m1 == IF r.exact # 0 THEN Put(mapping, csv_header, fields[r.exact].id)
              ELSE mapping
    IN  IF r.best.best_match # 0
        THEN Put(m1, csv_header, fields[r.best.best_match].id)
        ELSE m1

\* the body of `for csv_header in csv_headers`: lines 160-196
MapHeader(fields, mapping, csv_header) ==
    LET r  == ScanFields(fields, 1, Strip(Lower(csv_header)),
                         [best_match |-> 0, best_score |-> 0])
        m1 == IF r.exact # 0 THEN Put(mapping, csv_header, fields[r.exact].id)
              ELSE mapping
    IN  IF ~HasKey(m1, csv_header) /\ r.best.best_match # 0
        THEN Put(m1, csv_header, fields[r.best.best_match].id)
        ELSE m1

RECURSIVE MapHeaders(_, _, _, _)
MapHeaders(fields, headers, h, mapping) ==
    IF h > Len(headers) THEN mapping
    ELSE MapHeaders(fields, headers, h + 1,
                    MapHeader(fields, mapping, headers[h]))

_intelligent_csv_mapping(headers, fields) == MapHeaders(fields, headers, 1, <<>>)

\* headers of CSV exports
HeaderPool ==
    { <<"E","m","a","i","l">>,
      <<"e","m","a","i","l"," ">>,
      <<"W","o","r","k"," ","E","m","a","i","l">>,
      <<"F","u","l","l"," ","N","a","m","e">>,
      <<"x","y","z">> }

\* df.columns.tolist(): pandas gives the columns of a file distinct names
HeaderLists(pool, n) ==
    { t \in UNION {[1..k -> pool] : k \in 0..n} :
        \A a, b \in DOMAIN t : a # b => t[a] # t[b] }

\* custom fields a board can have: name, id and type
FieldPool ==
    { Field(<<"E","m","a","i","l">>, <<"f","1">>, "email", <<>>),
      Field(<<"e","m","a","i","l">>, <<"f","2">>, "text", <<>>),
      Field(<<"C","o","n","t","a","c","t"," ","E","m","a","i","l">>, <<"f","3">>, "email", <<>>),
      Field(<<"N","a","m","e">>, <<"f","5">>, "text", <<>>) }

\* the schemas discovery can build: distinct names, in any order
Schemas(n) ==
    { t \in UNION {[1..k -> FieldPool] : k \in 0..n} :
        \A a, b \in DOMAIN t : a # b => t[a] # t[b] }

InitMapping ==
    /\ pc = "map"
    /\ csv_headers \in HeaderLists(HeaderPool, MaxHeaders)
    /\ discovered_fields \in Schemas(MaxFields)
    /\ csv_mapping = <<>>
    /\ IdleCoerce /\ IdleDedup /\ IdleUpload
    /\ IdleLeadGen /\ IdleValidate /\ IdleRun

\* self.csv_mapping = self._intelligent_csv_mapping(df.columns.tolist())
IntelligentCsvMapping ==
    /\ pc = "map"
    /\ csv_mapping' = _intelligent_csv_mapping(csv_headers, discovered_fields)
    /\ pc' = "mapped"
    /\ UNCHANGED <<csv_headers, discovered_fields, coerce_vars, dedup_vars,
                   upload_vars, leadgen_vars, validated, run_vars>>

NextMapping == IntelligentCsvMapping

SpecMapping == InitMapping /\ [][NextMapping]_vars

-----------------------------------------------------------------------------
(* Claims about _intelligent_csv_mapping                                   *)

\* the header names the field exactly, ignoring case and outer whitespace
NamesField(h, f) == Strip(Lower(h)) = Lower(f.name)

Headers == Range(csv_headers)
Fields  == Range(discovered_fields)

\* C12: no field is the exact-match target of two different headers of the
\* returned mapping.
C12_OneExactHeaderPerField ==
    pc = "mapped"
    => \A f \in Fields : \A h1, h2 \in Headers :
          (/\ NamesField(h1, f) /\ HasKey(csv_mapping, h1)
           /\ Get(csv_mapping, h1) = f.id
           /\ NamesField(h2, f) /\ HasKey(csv_mapping, h2)
           /\ Get(csv_mapping, h2) = f.id)
          => h1 = h2

\* C13: a header that names a field exactly is mapped to the identifier of
\* that field, whatever the other fields score.
C13_ExactNameMapsToThatField ==
    pc = "mapped"
    => \A h \in Headers : \A f \in Fields :
          NamesField(h, f)
          => HasKey(csv_mapping, h) /\ Get(csv_mapping, h) = f.id

\* the position of the first field of the schema that the header names
FirstNamed(h) ==
    First({k \in DOMAIN discovered_fields : NamesField(h, discovered_fields[k])})

\* C13 (amended): a header that names one or more fields exactly is mapped
\* to the identifier of the first of them in schema order, whatever the
\* other fields score.
C13_ExactNameMapsToFirstSuchField ==
    pc = "mapped"
    => \A h \in Headers :
          (\E f \in Fields : NamesField(h, f))
          => /\ HasKey(csv_mapping, h)
             /\ Get(csv_mapping, h) = discovered_fields[FirstNamed(h)].id

\* the length of the shorter one when header and name contain one another
ContainScore(c, n) ==
    IF Contains(n, c) \/ Contains(c, n) THEN Min(Len(c), Len(n)) ELSE 0

\* the length of the longest keyword in the header among the categories
\* that have a keyword in the header and a keyword in the field name
KeywordScore(c, n) ==
    LET ls == {Len(p) : p \in UNION
                 {{q \in Range(field_patterns[k].patterns) : Contains(c, q)} :
                     k \in {j \in DOMAIN field_patterns :
                              \E q \in Range(field_patterns[j].patterns) :
                                  Contains(n, q)}}}
    IN  IF ls = {} THEN 0 ELSE CHOOSE l \in ls : \A m \in ls : m <= l

Score(h, f) ==
    Max(ContainScore(Strip(Lower(h)), Lower(f.name)),
        KeywordScore(Strip(Lower(h)), Lower(f.name)))

\* an earlier field scores positively for the header, a later one is named
\* by it, and the header went to the later one
C13_Witness ==
    /\ pc = "mapped"
    /\ \E h \in Headers :
          /\ Len(discovered_fields) >= 2
          /\ NamesField(h, discovered_fields[2])
          /\ ~NamesField(h, discovered_fields[1])
          /\ Score(h, discovered_fields[1]) > 0
          /\ Get(csv_mapping, h) = discovered_fields[2].id
          /\ discovered_fields[1].id # discovered_fields[2].id

\* C14: a header that names no field is mapped to the first field, in
\* schema order, of the highest score, and stays unmapped when every field
\* scores 0.
C14_BestScoreFirstWins ==
    pc = "mapped"
    => \A h \in Headers :
          (\A f \in Fields : ~NamesField(h, f))
          => LET top == {k \in DOMAIN discovered_fields :
                           \A m \in DOMAIN discovered_fields :
                              Score(h, discovered_fields[m])
                                 <= Score(h, discovered_fields[k])}
             IN  IF top = {} \/ \A f \in Fields : Score(h, f) = 0
                 THEN ~HasKey(csv_mapping, h)
                 ELSE /\ HasKey(csv_mapping, h)
                      /\ Get(csv_mapping, h) = discovered_fields[First(top)].id

\* two fields tie on the highest score and the earlier one got the header,
\* while another header of the file stayed unmapped
C14_Witness ==
    /\ pc = "mapped"
    /\ \E h \in Headers :
          /\ Len(discovered_fields) >= 2
          /\ \A f \in Fields : ~NamesField(h, f)
          /\ Score(h, discovered_fields[1]) = Score(h, discovered_fields[2])
          /\ Score(h, discovered_fields[1]) > 0
          /\ \A f \in Fields : Score(h, f) <= Score(h, discovered_fields[1])
          /\ Get(csv_mapping, h) = discovered_fields[1].id
    /\ \E h \in Headers : ~HasKey(csv_mapping, h)

-----------------------------------------------------------------------------
(* leadgen_processor.py: LeadGenProcessor.validate_leads and the           *)
(* deduplicate-then-validate tail of process_all_csvs                      *)

Placeholder == <<"n","a","n"," ","n","a","n">>

\* IsValidLead that compares the name as written, without .str.strip()
IsValidLead_unstripped(row) ==
    /\ row.name # None
    /\ row.name # <<>>
    /\ row.name # Placeholder
    /\ (row.email # None \/ row.phone # None)

\* the boolean mask of validate_leads for one row (lines 304-307)
IsValidLead(row) ==
    /\ row.name # None
    /\ Strip(row.name) # <<>>
    /\ Strip(row.name) # Placeholder
    /\ (row.email # None \/ row.phone # None)

\* validate_leads that writes the trimmed name back into the frame
validate_leads_trimming(frame) ==
    LET RECURSIVE Keep(_)
        Keep(k) == IF k > Len(frame) THEN <<>>
                   ELSE (IF IsValidLead(frame[k])
                         THEN <<[frame[k] EXCEPT !.name = Strip(@)]>>
                         ELSE <<>>) \o Keep(k + 1)
    IN  Keep(1)

\* df[mask].copy()
validate_leads(frame) ==
    LET RECURSIVE Keep(_)
        Keep(k) == IF k > Len(frame) THEN <<>>
                   ELSE (IF IsValidLead(frame[k]) THEN <<frame[k]>> ELSE <<>>)
                        \o Keep(k + 1)
    IN  Keep(1)

\* a name column read with no text in any row has a float dtype, and
\* df['name'].str raises AttributeError on it; the same column built from
\* None has the object dtype and is filtered normally
NameColumnMayBeFloat(frame) ==
    Len(frame) > 0 /\ \A k \in DOMAIN frame : frame[k].name = None

LeadNames ==
    { None, <<>>, <<" ">>, <<"n">>, <<" ","n"," ">>, Placeholder,
      <<" ">> \o Placeholder \o <<" ">> }
LeadEmails == {None, <<>>, <<"x">>}
LeadPhones == {None, <<"p">>}

IndexedLeads(rows) ==
    [k \in DOMAIN rows |->
        [index |-> k, email |-> rows[k].email, company |-> rows[k].company,
         name |-> rows[k].name, phone |-> rows[k].phone]]

ValidateFrames ==
    { IndexedLeads(rows) : rows \in UNION
        { [1..n -> [email : LeadEmails, company : {None}, name : LeadNames,
                    phone : LeadPhones]] : n \in 0..MaxRows } }

InitValidate ==
    /\ pc = "deduped"
    /\ deduped \in ValidateFrames
    /\ df = <<>>
    /\ validated = <<>>
    /\ discovered_fields = <<>>
    /\ IdleCoerce /\ IdleUpload /\ IdleLeadGen /\ IdleMap /\ IdleRun

\* validated_df = self.validate_leads(deduped_df)
ValidateLeads ==
    /\ pc = "deduped"
    /\ validated' = validate_leads(deduped)
    /\ pc' = "validated"
    /\ UNCHANGED <<df, deduped, discovered_fields, coerce_vars, upload_vars,
                   leadgen_vars, map_vars, run_vars>>

ValidateLeadsRaises ==
    /\ pc = "deduped"
    /\ NameColumnMayBeFloat(deduped)
    /\ pc' = "validate_raised"
    /\ UNCHANGED <<df, deduped, validated, discovered_fields, coerce_vars,
                   upload_vars, leadgen_vars, map_vars, run_vars>>

NextValidate == ValidateLeads \/ ValidateLeadsRaises

SpecValidate == InitValidate /\ [][NextValidate]_vars

\* C16: every record validate_leads returns has a name that is present, not
\* blank after trimming and, trimmed, not the placeholder 'nan nan', and an
\* email or a phone that is present; every input record of that kind is
\* returned.
C16_ValidatedExactlyTheValid ==
    LET Present(v) == v # None
        Blank(s) == \A k \in DOMAIN s : s[k] = " "
        Good(r) == /\ Present(r.name) /\ ~Blank(r.name)
                   /\ Strip(r.name) # Placeholder
                   /\ (Present(r.email) \/ Present(r.phone))
    IN  /\ pc = "validated"
           => /\ \A k \in DOMAIN validated : Good(validated[k])
              /\ \A j \in DOMAIN deduped :
                    Good(deduped[j])
                    => \E k \in DOMAIN validated : validated[k] = deduped[j]
        /\ pc = "validate_raised"
           => \A j \in DOMAIN deduped : ~Good(deduped[j])

\* a frame of two rows out of which one was kept, its name having outer
\* spaces, and one was dropped for the placeholder
C16_Witness ==
    /\ pc = "validated"
    /\ Len(deduped) = 2
    /\ Len(validated) = 1
    /\ validated[1].name = <<" ","n"," ">>
    /\ validated[1].email = None
    /\ \E j \in DOMAIN deduped : Strip(deduped[j].name) = Placeholder

-----------------------------------------------------------------------------
(* process_all_csvs, lines 464-469: the combined frame is deduplicated and *)
(* the result validated                                                    *)

PipeNames  == {None, <<" ">>, <<" ","n"," ">>}
PipeEmails == {None, <<"x">>}

\* the frames pd.concat(all_leads, ignore_index=True) can give
CombinedFrames ==
    { IndexedLeads(rows) : rows \in UNION
        { [1..n -> [email : PipeEmails, company : Companies,
                    name : PipeNames, phone : LeadPhones]] :
            n \in 0..MaxCombined } }

InitPipeline ==
    /\ pc = "dedup"
    /\ df \in CombinedFrames
    /\ deduped = <<>>
    /\ validated = <<>>
    /\ discovered_fields = <<>>
    /\ IdleCoerce /\ IdleUpload /\ IdleLeadGen /\ IdleMap /\ IdleRun

NextPipeline == DeduplicateLeads \/ ValidateLeads \/ ValidateLeadsRaises

SpecPipeline == InitPipeline /\ [][NextPipeline]_vars

\* out holds rows of in, each as it is in in, in the order they have in in
StableSubsequence(out, in) ==
    \E g \in [DOMAIN out -> DOMAIN in] :
        /\ \A k \in DOMAIN out : in[g[k]] = out[k]
        /\ \A a, b \in DOMAIN out : a < b => g[a] < g[b]

\* C17: what deduplicate_leads returns is a subsequence of its input and
\* what validate_leads returns is a subsequence of its input: the rows kept
\* are in input order and each equals, field for field, the input row it
\* came from.
C17_OutputsAreStableSubsequences ==
    /\ pc \in {"deduped", "validated", "validate_raised"}
       => StableSubsequence(deduped, df)
    /\ pc = "validated" => StableSubsequence(validated, deduped)

\* deduplication dropped a row between two it kept, and validation dropped
\* one of the rows left and kept a row whose name has outer spaces
C17_Witness ==
    /\ pc = "validated"
    /\ Len(df) = 3 /\ Len(deduped) = 2 /\ Len(validated) = 1
    /\ deduped[1].index = 1 /\ deduped[2].index = 3
    /\ validated[1].name = <<" ","n"," ">>

-----------------------------------------------------------------------------
(* universal_processor.py: a run of main: __init__ with                    *)
(* _discover_board_structure, then process_csv with                        *)
(* _intelligent_csv_mapping, _clean_and_process_data, _upload_to_clickup   *)

\* options[option['name']] = option['id'] for every option of type_config
RECURSIVE OptionsDict(_, _, _)
OptionsDict(options, k, d) ==
    IF k > Len(options) THEN d
    ELSE LET o == options[k]
             d2 == IF \E j \in DOMAIN d : d[j].name = o.name
                   THEN [j \in DOMAIN d |->
                            IF d[j].name = o.name THEN [name |-> o.name, id |-> o.id]
                            ELSE d[j]]
                   ELSE Append(d, [name |-> o.name, id |-> o.id])
         IN  OptionsDict(options, k + 1, d2)

\* lines 110-127: the ClickUpField of one custom field of a sampled task
FieldOf(entry) ==
    Field(entry.name, entry.id, entry.type,
          IF entry.type = "drop_down" /\ entry.has_type_config
          THEN OptionsDict(entry.options, 1, <<>>)
          ELSE <<>>)

\* discovered_fields[field_name] = ClickUpField(...)
PutField(d, f) ==
    IF \E j \in DOMAIN d : d[j].name = f.name
    THEN [j \in DOMAIN d |-> IF d[j].name = f.name THEN f ELSE d[j]]
    ELSE Append(d, f)

\* the loops of lines 105-127 from field k of task t on
RECURSIVE DiscoverFields(_, _, _, _)
DiscoverFields(tasks, t, k, d) ==
    IF t > Len(tasks) THEN d
    ELSE IF k > Len(tasks[t]) THEN DiscoverFields(tasks, t + 1, 1, d)
    ELSE DiscoverFields(tasks, t, k + 1, PutField(d, FieldOf(tasks[t][k])))

\* what _discover_board_structure returns for an answer with status 200
_discover_board_structure(tasks) ==
    IF tasks = <<>> THEN <<>> ELSE DiscoverFields(tasks, 1, 1, <<>>)

Entry(n, fid, t, cfg, opts) ==
    [name |-> n, id |-> fid, type |-> t, has_type_config |-> cfg,
     options |-> opts]

EntryEmail   == Entry(<<"E","m","a","i","l">>, <<"f","1">>, "email", FALSE, <<>>)
EntryPhone   == Entry(<<"P","h","o","n","e">>, <<"f","4">>, "phone", FALSE, <<>>)
EntryCompany == Entry(<<"C","o","m","p","a","n","y">>, <<"f","6">>, "text",
                      FALSE, <<>>)
EntryStatus  == Entry(<<"S","t","a","t","u","s">>, <<"f","7">>, "drop_down", TRUE,
                      << [name |-> <<"H","o","t">>, id |-> <<"#","1">>],
                         [name |-> <<"H","o","t">>, id |-> <<"#","2">>] >>)

\* answers of ClickUp to the sample request: a transport error, an error
\* status, no task, a task without custom fields, and tasks with fields
SampleResponses ==
    { [kind |-> "raised", tasks |-> <<>>],
      [kind |-> "failed", tasks |-> <<>>],
      [kind |-> "ok", tasks |-> <<>>],
      [kind |-> "ok", tasks |-> << <<>> >>],
      [kind |-> "ok", tasks |-> << <<EntryEmail, EntryPhone>> >>],
      [kind |-> "ok", tasks |-> << <<EntryPhone, EntryStatus>>,
                                   <<EntryCompany, EntryPhone>> >>] }

RunHeaders ==
    { <<"E","m","a","i","l">>, <<"P","h","o","n","e">>, <<"x","y","z">> }

\* the cell a row of a kind has under a header; None is an empty cell (NaN)
CellFor(kind, header) ==
    CASE kind = "blank" -> None
      [] kind = "full" /\ header = <<"E","m","a","i","l">>
            -> <<"A","@","b",".","c","o">>
      [] kind = "full" /\ header = <<"P","h","o","n","e">>
            -> <<"5","5","5","1","2","3","4","5","6","7">>
      [] kind = "full" -> <<"q">>
      [] kind = "poor" /\ header = <<"E","m","a","i","l">> -> <<"n","a","n">>
      [] kind = "poor" /\ header = <<"P","h","o","n","e">> -> <<"1","2","3">>
      [] OTHER -> <<" ">>

RowKinds == {"full", "poor", "blank"}

\* df.head(3)
TestRows == 3
head(rows, n) == SubSeq(rows, 1, Min(n, Len(rows)))

\* row.get(csv_col)
RowGet(headers, row, csv_col) ==
    LET ks == {k \in DOMAIN headers : headers[k] = csv_col}
    IN  IF ks = {} THEN None ELSE row[First(ks)]

\* lead_data[clickup_field_id] = cleaned_value
PutLead(d, fid, v) ==
    IF \E j \in DOMAIN d : d[j].id = fid
    THEN [j \in DOMAIN d |-> IF d[j].id = fid THEN [id |-> fid, value |-> v]
                             ELSE d[j]]
    ELSE Append(d, [id |-> fid, value |-> v])

\* the loop of lines 334-349 over self.csv_mapping.items() from item k on
RECURSIVE LeadData(_, _, _, _, _, _)
LeadData(fields, headers, mapping, row, k, lead_data) ==
    IF k > Len(mapping) THEN lead_data
    ELSE LET v  == RowGet(headers, row, mapping[k].key)
             fs == {f \in DOMAIN fields : fields[f].id = mapping[k].value}
             c  == IF v # None /\ Strip(v) # <<>> /\ fs # {}
                   THEN _clean_field_value(v, fields[First(fs)].type,
                                           fields[First(fs)].id, fields)
                   ELSE None
         IN  LeadData(fields, headers, mapping, row, k + 1,
                      IF Truthy(c) THEN PutLead(lead_data, mapping[k].value, c)
                      ELSE lead_data)

\* _clean_and_process_data: one lead_data per row, kept when not empty
RECURSIVE _clean_and_process_data(_, _, _, _, _)
_clean_and_process_data(fields, headers, mapping, rows, r) ==
    IF r > Len(rows) THEN <<>>
    ELSE LET lead_data == LeadData(fields, headers, mapping, rows[r], 1, <<>>)
         IN  (IF lead_data # <<>> THEN <<lead_data>> ELSE <<>>)
             \o _clean_and_process_data(fields, headers, mapping, rows, r + 1)

\* the files process_csv can be given: distinct headers, rows cell by cell
CsvRowsFor(headers) ==
    { [r \in DOMAIN kinds |-> [k \in DOMAIN headers |-> CellFor(kinds[r], headers[k])]] :
        kinds \in UNION {[1..n -> RowKinds] : n \in 0..MaxCsvRows} }

InitRun ==
    /\ pc = "init"
    /\ response \in SampleResponses
    /\ csv_headers \in HeaderLists(RunHeaders, MaxHeaders)
    /\ csv_rows \in CsvRowsFor(csv_headers)
    /\ csv_readable \in BOOLEAN
    /\ test_mode \in BOOLEAN
    /\ result = "none"
    /\ discovered_fields = <<>> /\ csv_mapping = <<>>
    /\ leads = <<>> /\ i = 0 /\ phone_value = None /\ phone_field_id = None
    /\ task_payload = <<>> /\ task_id = None /\ success_count = 0
    /\ returned = None /\ calls = <<>>
    /\ IdleCoerce /\ IdleDedup /\ IdleLeadGen /\ IdleValidate

\* line 78 with an answer of status 200: lines 97-136, then line 79
DiscoverOk ==
    /\ pc = "init"
    /\ response.kind = "ok"
    /\ discovered_fields' = _discover_board_structure(response.tasks)
    /\ csv_mapping' = <<>>
    /\ pc' = "constructed"
    /\ UNCHANGED <<csv_headers, coerce_vars, dedup_vars, upload_vars,
                   leadgen_vars, validated, run_vars>>

\* line 78 with an answer of another status: lines 93-95, then line 79
DiscoverFailed ==
    /\ pc = "init"
    /\ response.kind = "failed"
    /\ discovered_fields' = <<>>
    /\ csv_mapping' = <<>>
    /\ pc' = "constructed"
    /\ UNCHANGED <<csv_headers, coerce_vars, dedup_vars, upload_vars,
                   leadgen_vars, validated, run_vars>>

\* requests.get raises at line 91: no handler in _discover_board_structure,
\* __init__ or main, the exception ends the program
DiscoverRaised ==
    /\ pc = "init"
    /\ response.kind = "raised"
    /\ pc' = "crashed"
    /\ UNCHANGED <<discovered_fields, csv_headers, csv_mapping, coerce_vars,
                   dedup_vars, upload_vars, leadgen_vars, validated, run_vars>>

\* pd.read_csv at line 296 reads the file
ReadCsv ==
    /\ pc = "constructed"
    /\ csv_readable
    /\ pc' = "map"
    /\ UNCHANGED <<discovered_fields, csv_headers, csv_mapping, coerce_vars,
                   dedup_vars, upload_vars, leadgen_vars, validated, run_vars>>

\* pd.read_csv raises: lines 320-322
ReadCsvRaised ==
    /\ pc = "constructed"
    /\ ~csv_readable
    /\ result' = "False"
    /\ pc' = "returned"
    /\ UNCHANGED <<discovered_fields, csv_headers, csv_mapping, coerce_vars,
                   dedup_vars, upload_vars, leadgen_vars, validated, response,
                   csv_rows, csv_readable, test_mode>>

\* NoMapping that reports success
NoMapping_returns_true ==
    /\ pc = "mapped"
    /\ csv_mapping = <<>>
    /\ result' = "True"
    /\ pc' = "returned"
    /\ UNCHANGED <<discovered_fields, csv_headers, csv_mapping, coerce_vars,
                   dedup_vars, upload_vars, leadgen_vars, validated, response,
                   csv_rows, csv_readable, test_mode>>

\* `if not self.csv_mapping: return False`, lines 302-304
NoMapping ==
    /\ pc = "mapped"
    /\ csv_mapping = <<>>
    /\ result' = "False"
    /\ pc' = "returned"
    /\ UNCHANGED <<discovered_fields, csv_headers, csv_mapping, coerce_vars,
                   dedup_vars, upload_vars, leadgen_vars, validated, response,
                   csv_rows, csv_readable, test_mode>>

\* lines 307-315: head(3) in test mode, _clean_and_process_data, and the
\* call of _upload_to_clickup up to its loop (lines 447-449)
CleanAndProcessData ==
    /\ pc = "mapped"
    /\ csv_mapping # <<>>
    /\ leads' = _clean_and_process_data(
                    discovered_fields, csv_headers, csv_mapping,
                    IF test_mode THEN head(csv_rows, TestRows) ELSE csv_rows, 1)
    /\ pc' = "loop"
    /\ UNCHANGED <<discovered_fields, csv_headers, csv_mapping, i, phone_value,
                   phone_field_id, task_payload, task_id, success_count,
                   returned, calls, coerce_vars, dedup_vars, leadgen_vars,
                   validated, run_vars>>

\* `return success_count > 0`, line 318
ReturnSuccess ==
    /\ pc = "done"
    /\ result' = IF returned > 0 THEN "True" ELSE "False"
    /\ pc' = "returned"
    /\ UNCHANGED <<discovered_fields, csv_headers, csv_mapping, coerce_vars,
                   dedup_vars, upload_vars, leadgen_vars, validated, response,
                   csv_rows, csv_readable, test_mode>>

NextRun ==
    \/ DiscoverOk
    \/ DiscoverFailed
    \/ DiscoverRaised
    \/ ReadCsv
    \/ ReadCsvRaised
    \/ IntelligentCsvMapping
    \/ NoMapping
    \/ CleanAndProcessData
    \/ NextLead
    \/ CreateOk
    \/ CreateFailed
    \/ CreateRaised
    \/ UpdateOk
    \/ UpdateFailed
    \/ UpdateRaised
    \/ ReturnCount
    \/ ReturnSuccess

SpecRun == InitRun /\ [][NextRun]_vars

-----------------------------------------------------------------------------
(* Claims about a run of the universal processor                           *)

\* C18: when the sample request fails, by an error status or a transport
\* error, or returns no task, discovery returns the empty schema and does
\* not raise: the caller goes on.
C18_FailedDiscoveryGivesEmptySchema ==
    (/\ pc # "init"
     /\ \/ response.kind \in {"failed", "raised"}
        \/ response.tasks = <<>>)
    => pc # "crashed" /\ discovered_fields = <<>>

\* C19: with an empty discovered schema process_csv maps no header, sends
\* no create call and no update call, and returns False.
C19_EmptySchemaUploadsNothing ==
    (pc \notin {"init", "crashed"} /\ discovered_fields = <<>>)
    => /\ csv_mapping = <<>>
       /\ calls = <<>>
       /\ leads = <<>>
       /\ pc \notin {"loop", "create", "update", "done"}
       /\ pc = "returned" => result = "False"

\* a readable file with headers and rows was processed against a board
\* whose sampled task has no custom field, and process_csv has returned
C19_Witness ==
    /\ pc = "returned"
    /\ discovered_fields = <<>>
    /\ response.kind = "ok" /\ response.tasks # <<>>
    /\ csv_readable
    /\ Len(csv_headers) = 2 /\ Len(csv_rows) = 2
    /\ result = "False"

Rank(p) ==
    CASE p = "init" -> 0
      [] p = "constructed" -> 1
      [] p = "map" -> 2
      [] p = "mapped" -> 3
      [] p \in {"loop", "create", "update"} -> 4
      [] p = "done" -> 5
      [] OTHER -> 6

\* C20: the schema is written by discovery only, before the mapping; the
\* mapping is written before any call is sent; calls are sent by the upload
\* only, and no step of the upload changes the schema, the mapping or the
\* leads it was given.
C20_ComputedOnceBeforeUpload ==
    [][ /\ Rank(pc) <= Rank(pc')
        /\ discovered_fields' # discovered_fields => pc = "init"
        /\ csv_mapping' # csv_mapping => pc = "map" /\ calls = <<>>
        /\ calls' # calls => pc \in {"create", "update"}
        /\ pc \in {"loop", "create", "update"}
           => UNCHANGED <<discovered_fields, csv_mapping, leads>> ]_vars

\* a run that uploaded two leads, the second with a phone update, from a
\* schema merged from two tasks
C20_Witness ==
    /\ pc = "returned"
    /\ Len(discovered_fields) = 3
    /\ Len(csv_mapping) >= 1
    /\ Len(leads) = 2
    /\ \E c \in DOMAIN calls : calls[c].op = "update" /\ calls[c].lead = 2
    /\ \E f \in DOMAIN discovered_fields :
          /\ discovered_fields[f].type = "phone"
          /\ \E e \in DOMAIN leads[2] : leads[2][e].id = discovered_fields[f].id

-----------------------------------------------------------------------------
(* _discover_board_structure on generated answers of the sample request    *)

EntryStage  == Entry(<<"S","t","a","g","e">>, <<"f","8">>, "drop_down", TRUE, <<>>)
EntryTier   == Entry(<<"T","i","e","r">>, <<"f","9">>, "drop_down", FALSE, <<>>)
EntryLabels == Entry(<<"L","a","b","e","l","s">>, <<"f","0">>, "labels", TRUE,
                     << [name |-> <<"V","I","P">>, id |-> <<"#","3">>] >>)

\* custom fields of a sampled task: plain fields, a drop_down with options,
\* one whose type_config lists no option, one without type_config, and a
\* field of another type whose type_config has options
EntryPool ==
    {EntryEmail, EntryPhone, EntryStatus, EntryStage, EntryTier, EntryLabels}

SampledTasks == UNION {[1..n -> EntryPool] : n \in 0..2}

InitDiscover ==
    /\ pc = "init"
    /\ response \in
          { [kind |-> k, tasks |-> <<>>] : k \in {"raised", "failed"} }
          \cup { [kind |-> "ok", tasks |-> t] :
                    t \in UNION {[1..n -> SampledTasks] : n \in 0..MaxTasks} }
    /\ csv_headers = <<>> /\ csv_rows = <<>>
    /\ csv_readable = TRUE /\ test_mode = FALSE /\ result = "none"
    /\ discovered_fields = <<>> /\ csv_mapping = <<>>
    /\ IdleCoerce /\ IdleDedup /\ IdleUpload /\ IdleLeadGen /\ IdleValidate

NextDiscover == DiscoverOk \/ DiscoverFailed \/ DiscoverRaised

SpecDiscover == InitDiscover /\ [][NextDiscover]_vars

\* C21: every field discovery returns has a non-empty option table exactly
\* when its type is drop_down.
C21_OptionsIffDropDown ==
    pc = "constructed"
    => \A f \in DOMAIN discovered_fields :
          (discovered_fields[f].options # <<>>)
             <=> (discovered_fields[f].type = "drop_down")

-----------------------------------------------------------------------------
(* leadgen_processor.py: estimate_value_from_revenue and the estimated     *)
(* value of process_george_cto_csv and process_arizona_csv                 *)

\* a revenue cell: NaN for a missing one, Num(n) for the number n
NaN == <<>>
Num(n) == <<n>>

\* int(revenue * 0.001): for a positive whole revenue the float product
\* truncates to the whole thousands
IntOfThousandth(n) == n \div 1000

\* estimate_value_from_revenue without the floor of line 114
estimate_value_from_revenue_no_floor(r) ==
    IF r = NaN \/ r[1] <= 0 THEN 5000
    ELSE Min(500000, IntOfThousandth(r[1]))

estimate_value_from_revenue(r) ==
    IF r = NaN \/ r[1] <= 0 THEN 5000
    ELSE Max(1000, Min(500000, IntOfThousandth(r[1])))

\* revenues around the two ends of the range and on a scale across it
RevenueInputs ==
    {NaN}
    \cup {Num(b + d) : b \in {0, 1000, 1000000, 500000000}, d \in (-2)..2}
    \cup {Num(b + d) : b \in {1000000, 500000000}, d \in {-1000, 999, 1000}}
    \cup {Num(k * 12500013) : k \in (-1)..MaxScale}

InitEstimate ==
    /\ pc = "estimate"
    /\ revenue \in RevenueInputs
    /\ estimated = 0 /\ source = "none"
    /\ company_revenue = <<>> /\ estimated_value = <<>>
    /\ discovered_fields = <<>>
    /\ IdleCoerce /\ IdleDedup /\ IdleUpload /\ IdleEmail
    /\ IdleMap /\ IdleValidate /\ IdleRun
    /\ IdleGen /\ IdleFiles /\ IdleBatch

\* self.estimate_value_from_revenue(revenue)
EstimateValueCall ==
    /\ pc = "estimate"
    /\ estimated' = estimate_value_from_revenue(revenue)
    /\ pc' = "estimated"
    /\ UNCHANGED <<revenue, source, company_revenue, estimated_value,
                   discovered_fields, coerce_vars, dedup_vars, upload_vars,
                   email_vars, map_vars, validated, run_vars, gen_vars,
                   files_vars, batch_vars>>

NextEstimate == EstimateValueCall

SpecEstimate == InitEstimate /\ [][NextEstimate]_vars

\* the flat value a source format assigns when no row has a revenue
\* (line 146 and line 179)
FlatValue(src) == IF src = "george_cto" THEN 7500 ELSE 5000

\* lines 143-146 and 176-179: the estimated_value column
EstimatedValueColumn(src, column) ==
    IF \E k \in DOMAIN column : column[k] # NaN
    THEN [k \in DOMAIN column |-> estimate_value_from_revenue(column[k])]
    ELSE [k \in DOMAIN column |-> FlatValue(src)]

RevenueCells == {NaN, Num(0), Num(-5), Num(2000000)}

\* a file without the column 'Company Annual Revenue' has a missing
\* company_revenue in every row (lines 133 and 166)
InitSource ==
    /\ pc = "estimate_values"
    /\ source \in {"george_cto", "arizona"}
    /\ company_revenue \in UNION {[1..n -> RevenueCells] : n \in 0..MaxFileRows}
    /\ estimated_value = <<>>
    /\ revenue = <<>> /\ estimated = 0
    /\ discovered_fields = <<>>
    /\ IdleCoerce /\ IdleDedup /\ IdleUpload /\ IdleEmail
    /\ IdleMap /\ IdleValidate /\ IdleRun
    /\ IdleGen /\ IdleFiles /\ IdleBatch

\* "Estimate deal values" of process_george_cto_csv / process_arizona_csv
EstimateDealValues ==
    /\ pc = "estimate_values"
    /\ estimated_value' = EstimatedValueColumn(source, company_revenue)
    /\ pc' = "values_estimated"
    /\ UNCHANGED <<revenue, estimated, source, company_revenue,
                   discovered_fields, coerce_vars, dedup_vars, upload_vars,
                   email_vars, map_vars, validated, run_vars, gen_vars,
                   files_vars, batch_vars>>

NextSource == EstimateDealValues

SpecSource == InitSource /\ [][NextSource]_vars

\* C22: a record of the George CTO or the Arizona format whose revenue is
\* missing gets its source's flat value, 7500 or 5000, whatever the other
\* rows of the file hold.
C22_AbsentRevenueGetsSourceDefault ==
    pc = "values_estimated"
    => \A k \in DOMAIN company_revenue :
          company_revenue[k] = NaN
          => estimated_value[k] = (IF source = "george_cto" THEN 7500 ELSE 5000)

\* C23: for a positive whole revenue the estimate is
\* min(500000, max(1000, revenue div 1000)), and for every revenue, missing
\* ones included, it lies between 1000 and 500000.
C23_EstimateClamped ==
    pc = "estimated"
    => /\ (revenue # NaN /\ revenue[1] > 0)
          => LET t == revenue[1] \div 1000
                 m == IF t < 1000 THEN 1000 ELSE t
             IN  estimated = IF m > 500000 THEN 500000 ELSE m
       /\ 1000 <= estimated /\ estimated <= 500000

\* an estimate strictly inside the range
C23_Witness ==
    /\ pc = "estimated"
    /\ revenue # NaN
    /\ estimated = revenue[1] \div 1000
    /\ 1000 < estimated /\ estimated < 500000

\* ------------------------------------------------------------------
\* process_generic_csv of the working copy of the lead processor:
\* the decision whether a file has a header row
\* ------------------------------------------------------------------

\* bool(x) of a str: a non-empty string is true
StrTruthy(s) == Len(s) > 0

\* len(col.split()): the number of maximal runs of non-space characters
WordCount(col) ==
    Cardinality({k \in DOMAIN col :
        /\ col[k] \notin SpaceChars
        /\ (k = 1 \/ col[k - 1] \in SpaceChars)})

\* col.replace(' ', '').isalpha(): at least one character, letters only
IsAlphaWithoutSpaces(col) ==
    LET bare == SelectSeq(col, LAMBDA c : c # " ")
    IN  /\ bare # <<>>
        /\ \A k \in DOMAIN bare : bare[k] \in UpperSet \cup LowerSet

\* any(len(col.split()) == 2 and ... for col in df.columns[:5])
TwoWordAlpha(columns) ==
    \E k \in DOMAIN columns :
        k <= 5 /\ WordCount(columns[k]) = 2 /\ IsAlphaWithoutSpaces(columns[k])

\* the truth values any() sees in headerless_indicators: three string
\* literals and the two-word test
headerless_indicators(columns) ==
    << StrTruthy(<<"t","a","r","a"," ","h","a","n","l","e","y">>),
       StrTruthy(<<"r","o","n"," ","w","i","l","l","i","a","m","s">>),
       StrTruthy(<<"j","u","l","i","a","n"," ","d","r","e","w">>),
       TwoWordAlpha(columns) >>

\* str(df.columns[1]) if len(df.columns) > 1 else str(df.columns[0])
first_col_sample(columns) ==
    IF Len(columns) > 1 THEN columns[2] ELSE columns[1]

NameFragments == { <<"t","a","r","a">>, <<"r","o","n">>,
                   <<"j","u","l","i","a","n">> }

\* the condition of the if: any(headerless_indicators) or any(name in ...)
IsHeaderless(columns) ==
    \/ \E k \in DOMAIN headerless_indicators(columns) :
           headerless_indicators(columns)[k]
    \/ \E name \in NameFragments :
           Contains(Lower(first_col_sample(columns)), name)

MaxGenColumns == 3

GenHeaderPool ==
    { <<"F","u","l","l"," ","N","a","m","e">>,
      <<"E","m","a","i","l">>,
      <<"P","h","o","n","e">>,
      <<"C","o","m","p","a","n","y">>,
      <<"T","a","r","a"," ","H","a","n","l","e","y">>,
      <<"t","a","r","a","@","x",".","c","o">>,
      <<"z","i","p","9","9">> }

InitGeneric ==
    /\ pc = "generic"
    /\ gen_columns \in HeaderLists(GenHeaderPool, MaxGenColumns) \ {<<>>}
    /\ gen_rows \in 0..MaxFileRows
    /\ headerless = "none"
    /\ gen_records = 0
    /\ discovered_fields = <<>>
    /\ IdleCoerce /\ IdleDedup /\ IdleUpload
    /\ IdleMap /\ IdleValidate /\ IdleRun
    /\ IdleEmail /\ IdleEst /\ IdleFiles /\ IdleBatch

GenericUnchanged ==
    UNCHANGED <<gen_columns, gen_rows, discovered_fields, coerce_vars,
                dedup_vars, upload_vars, map_vars, validated, run_vars,
                email_vars, est_vars, files_vars, batch_vars>>

\* the file is read twice when judged headerless: the second read, with
\* header=None, makes the first line a row of df
ProcessGenericCsv ==
    /\ pc = "generic"
    /\ IF IsHeaderless(gen_columns)
       THEN headerless' = "True" /\ gen_records' = gen_rows + 1
       ELSE headerless' = "False" /\ gen_records' = gen_rows
    /\ pc' = "generic_done"
    /\ GenericUnchanged

\* pd.read_csv raises: the except clause returns an empty table
ProcessGenericCsvUnreadable ==
    /\ pc = "generic"
    /\ pc' = "generic_failed"
    /\ UNCHANGED <<headerless, gen_records>>
    /\ GenericUnchanged

NextGeneric == ProcessGenericCsv \/ ProcessGenericCsvUnreadable

SpecGeneric == InitGeneric /\ [][NextGeneric]_vars

OrdinaryLabels ==
    { <<"F","u","l","l"," ","N","a","m","e">>, <<"E","m","a","i","l">>,
      <<"P","h","o","n","e">>, <<"C","o","m","p","a","n","y">> }

\* C24: a file whose headers are all ordinary field labels is not judged
\* headerless, and its header row is not turned into a data record
C24_LabelledFileKeepsItsHeader ==
    (pc = "generic_done" /\ \A k \in DOMAIN gen_columns :
                                gen_columns[k] \in OrdinaryLabels)
        => (headerless = "False" /\ gen_records = gen_rows)

\* ------------------------------------------------------------------
\* process_all_csvs: one table per file, the tables of the files that
\* could be processed combined, deduplicated and validated
\* ------------------------------------------------------------------

MaxFiles == 2
MaxPerFile == 1

\* the records a source processor makes of the rows of a file
FileRows ==
    { [email |-> <<"x">>, company |-> <<"c">>, name |-> <<" ","n"," ">>,
       phone |-> None],
      [email |-> <<"x">>, company |-> None, name |-> <<" ">>,
       phone |-> <<"p">>],
      [email |-> None, company |-> <<"c">>, name |-> None,
       phone |-> <<"p">>] }

\* a file of the directory: whether its source processor raises (the file
\* is unreadable or lacks a column the format expects) and the records the
\* processor makes of its rows when it does not
CsvFiles ==
    [ fails : BOOLEAN,
      leads : UNION {[1..n -> FileRows] : n \in 0..MaxPerFile} ]

\* pd.concat(all_leads): the rows of the tables, table after table
RECURSIVE concat(_)
concat(tables) ==
    IF tables = <<>> THEN <<>> ELSE Head(tables) \o concat(Tail(tables))

InitAllCsvs ==
    /\ pc = "files"
    /\ csv_files \in UNION {[1..n -> CsvFiles] : n \in 0..MaxFiles}
    /\ file_no = 0
    /\ all_leads = <<>>
    /\ df = <<>> /\ deduped = <<>> /\ validated = <<>>
    /\ discovered_fields = <<>>
    /\ IdleCoerce /\ IdleUpload /\ IdleMap /\ IdleRun
    /\ IdleEmail /\ IdleEst /\ IdleGen /\ IdleBatch

FilesUnchanged ==
    UNCHANGED <<csv_files, discovered_fields, coerce_vars, upload_vars,
                map_vars, run_vars, email_vars, est_vars, gen_vars,
                batch_vars>>

\* if not csv_files: return pd.DataFrame()
NoCsvFiles ==
    /\ pc = "files"
    /\ csv_files = <<>>
    /\ pc' = "no_files"
    /\ UNCHANGED <<file_no, all_leads, dedup_vars, validated>>
    /\ FilesUnchanged

\* a pass of the loop whose processor returns: all_leads.append(df)
ProcessCsvFile ==
    /\ pc = "files"
    /\ file_no < Len(csv_files)
    /\ ~csv_files[file_no + 1].fails
    /\ all_leads' = Append(all_leads, csv_files[file_no + 1].leads)
    /\ file_no' = file_no + 1
    /\ UNCHANGED <<pc, dedup_vars, validated>>
    /\ FilesUnchanged

\* the failure of one file ends the loop (not what the code does)
ProcessCsvFileFails_stops ==
    /\ pc = "files"
    /\ file_no < Len(csv_files)
    /\ csv_files[file_no + 1].fails
    /\ file_no' = Len(csv_files)
    /\ UNCHANGED <<pc, all_leads, dedup_vars, validated>>
    /\ FilesUnchanged

\* a pass of the loop whose processor raises: the except clause logs the
\* error and the loop goes on
ProcessCsvFileFails ==
    /\ pc = "files"
    /\ file_no < Len(csv_files)
    /\ csv_files[file_no + 1].fails
    /\ file_no' = file_no + 1
    /\ UNCHANGED <<pc, all_leads, dedup_vars, validated>>
    /\ FilesUnchanged

\* if not all_leads: return pd.DataFrame()
NothingProcessed ==
    /\ pc = "files"
    /\ csv_files # <<>>
    /\ file_no = Len(csv_files)
    /\ all_leads = <<>>
    /\ pc' = "nothing_processed"
    /\ UNCHANGED <<file_no, all_leads, dedup_vars, validated>>
    /\ FilesUnchanged

\* combined_df = pd.concat(all_leads, ignore_index=True)
CombineLeads ==
    /\ pc = "files"
    /\ file_no = Len(csv_files)
    /\ all_leads # <<>>
    /\ df' = IndexedLeads(concat(all_leads))
    /\ pc' = "dedup"
    /\ UNCHANGED <<file_no, all_leads, deduped, validated>>
    /\ FilesUnchanged

\* validated_df.to_csv(output_path, index=False); return validated_df
SaveLeads ==
    /\ pc = "validated"
    /\ pc' = "saved"
    /\ UNCHANGED <<file_no, all_leads, dedup_vars, validated>>
    /\ FilesUnchanged

NextAllCsvs ==
    \/ NoCsvFiles
    \/ ProcessCsvFile
    \/ ProcessCsvFileFails
    \/ NothingProcessed
    \/ CombineLeads
    \/ DeduplicateLeads
    \/ ValidateLeads
    \/ ValidateLeadsRaises
    \/ SaveLeads

SpecAllCsvs == InitAllCsvs /\ [][NextAllCsvs]_vars

\* the tables of the files whose processor returns, in directory order
TablesOfGoodFiles(files) ==
    LET good == SelectSeq(files, LAMBDA f : ~f.fails)
    IN  [k \in DOMAIN good |-> good[k].leads]

\* the records of the files whose processor returns, in directory order
RECURSIVE LeadsOfGoodFiles(_)
LeadsOfGoodFiles(files) ==
    IF files = <<>> THEN <<>>
    ELSE (IF Head(files).fails THEN <<>> ELSE Head(files).leads)
             \o LeadsOfGoodFiles(Tail(files))

\* C25: the loop takes every file whatever happened to the files before it;
\* a file whose processing fails adds no record, and the table handed to
\* deduplicate_leads, and its result to validate_leads, holds exactly the
\* records of the other files, in order.
C25_FailedFileIsSkipped ==
    /\ pc = "files"
       => all_leads = TablesOfGoodFiles(SubSeq(csv_files, 1, file_no))
    /\ pc \in {"nothing_processed", "dedup", "deduped", "validated",
               "validate_raised", "saved"}
       => /\ file_no = Len(csv_files)
          /\ df = IndexedLeads(LeadsOfGoodFiles(csv_files))
    /\ pc = "nothing_processed" => \A k \in DOMAIN csv_files : csv_files[k].fails
    /\ pc \in {"deduped", "validated", "validate_raised", "saved"}
       => deduped = deduplicate_leads(IndexedLeads(LeadsOfGoodFiles(csv_files)))
    /\ pc \in {"validated", "saved"}
       => validated = validate_leads(deduped)

\* a failing file that had a row came first, and the row of the file after
\* it was kept by both passes
C25_Witness ==
    /\ pc = "saved"
    /\ Len(csv_files) = 2
    /\ csv_files[1].fails /\ csv_files[1].leads # <<>>
    /\ ~csv_files[2].fails
    /\ Len(validated) = 1
    /\ validated[1].name = <<" ","n"," ">>

\* ------------------------------------------------------------------
\* _upload_to_clickup: order of the calls and end of the loop
\* ------------------------------------------------------------------

\* lead_data dicts: the empty one, the email alone, a phone before the email
OrderedLeadDicts ==
    {d \in LeadDicts : d = <<>> \/ (Len(d) <= 2 /\ d[Len(d)].id = FE)}

InitUploadFair ==
    /\ pc = "loop"
    /\ leads \in UNION {[1..n -> OrderedLeadDicts] : n \in 0..MaxLeads}
    /\ discovered_fields = UploadFields
    /\ i = 0 /\ phone_value = None /\ phone_field_id = None
    /\ task_payload = <<>> /\ task_id = None /\ success_count = 0
    /\ returned = None /\ calls = <<>>
    /\ IdleCoerce /\ IdleDedup /\ IdleMore

\* the for loop of lines 451-524 runs on a finite list and every request
\* is answered or raises, so a step that can be taken is taken
SpecUploadFair == InitUploadFair /\ [][NextUpload]_vars /\ WF_vars(NextUpload)

\* the leads for which a create call was issued, oldest call first
CreateLeads ==
    LET cs == SelectSeq(calls, LAMBDA c : c.op = "create")
    IN  [k \in DOMAIN cs |-> cs[k].lead]

\* leads whose create call is behind them
LeadsServed == IF pc = "create" THEN i - 1 ELSE i

C26_CallsInLeadOrder ==
    /\ CreateLeads = [k \in 1..LeadsServed |-> k]
    /\ \A a, b \in DOMAIN calls : a < b => calls[a].lead <= calls[b].lead
    /\ pc = "done"
       => /\ Len(CreateLeads) = Len(leads)
          /\ returned \in 0..Len(leads)

\* C26: at every moment the create calls issued are one per lead taken so
\* far, in input order, and no call of a lead follows a call of a later
\* lead; the loop ends, and then every lead has had its create call and the
\* count returned is between 0 and the number of leads.
C26_OneCreatePerLeadThenReturn ==
    [](C26_CallsInLeadOrder) /\ <>(pc = "done")

\* two leads: the create of the first failed, the second was created and
\* its phone update was sent; one is returned
C26_Witness ==
    /\ pc = "done"
    /\ Len(leads) = 2
    /\ Len(calls) = 3
    /\ calls[1].op = "create" /\ calls[1].status # "ok"
    /\ calls[2].op = "create" /\ calls[2].status = "ok"
    /\ calls[3].op = "update"
    /\ returned = 1

\* ------------------------------------------------------------------
\* LeadGenProcessor.upload_to_clickup: the table is uploaded in batches
\* ------------------------------------------------------------------

MaxTable == 4
MaxBatch == 2

\* df = df.head(3)
HeadRows == 3

\* len(df) after line 385
UploadRows == Min(lg_n, HeadRows)

\* len(batch) of batch = df.iloc[i:i+batch_size]
BatchRows == Min(batch_size, UploadRows - batch_i)

InitBatchUpload ==
    /\ pc = "batches"
    /\ lg_n \in 0..MaxTable
    /\ batch_size \in 1..MaxBatch
    /\ batch_i = 0 /\ batch_j = 0
    /\ lg_calls = <<>> /\ task_ids = <<>>
    /\ discovered_fields = <<>>
    /\ IdleCoerce /\ IdleDedup /\ IdleUpload
    /\ IdleMap /\ IdleValidate /\ IdleRun
    /\ IdleEmail /\ IdleEst /\ IdleGen /\ IdleFiles

BatchUnchanged ==
    UNCHANGED <<lg_n, batch_size, discovered_fields, coerce_vars, dedup_vars,
                upload_vars, map_vars, validated, run_vars, email_vars,
                est_vars, gen_vars, files_vars>>

\* `for i in range(0, len(df), batch_size)` enters its body
NextBatch ==
    /\ pc = "batches"
    /\ batch_i < UploadRows
    /\ batch_j' = 0
    /\ pc' = "batch"
    /\ UNCHANGED <<batch_i, lg_calls, task_ids>>
    /\ BatchUnchanged

\* the create call for the next row of the batch, numbered from 1 in df
TaskCall(status) ==
    [lead |-> batch_i + batch_j + 1, batch |-> batch_i, status |-> status]

\* requests.post answers 200: the id is appended to task_ids
CreateTaskOk ==
    /\ pc = "batch"
    /\ batch_j < BatchRows
    /\ lg_calls' = Append(lg_calls, TaskCall("ok"))
    /\ task_ids' = Append(task_ids, NewTaskId(Len(task_ids) + 1))
    /\ batch_j' = batch_j + 1
    /\ UNCHANGED <<pc, batch_i>>
    /\ BatchUnchanged

\* requests.post answers another status
CreateTaskFailed ==
    /\ pc = "batch"
    /\ batch_j < BatchRows
    /\ lg_calls' = Append(lg_calls, TaskCall("failed"))
    /\ batch_j' = batch_j + 1
    /\ UNCHANGED <<pc, batch_i, task_ids>>
    /\ BatchUnchanged

\* requests.post raises: the except clause logs the error
CreateTaskRaised ==
    /\ pc = "batch"
    /\ batch_j < BatchRows
    /\ lg_calls' = Append(lg_calls, TaskCall("raised"))
    /\ batch_j' = batch_j + 1
    /\ UNCHANGED <<pc, batch_i, task_ids>>
    /\ BatchUnchanged

\* the rows of the batch are done: time.sleep(2) and the next i
EndBatch ==
    /\ pc = "batch"
    /\ batch_j = BatchRows
    /\ batch_i' = batch_i + batch_size
    /\ pc' = "batches"
    /\ UNCHANGED <<batch_j, lg_calls, task_ids>>
    /\ BatchUnchanged

\* the range is exhausted: return task_ids
ReturnTaskIds ==
    /\ pc = "batches"
    /\ batch_i >= UploadRows
    /\ pc' = "uploaded"
    /\ UNCHANGED <<batch_i, batch_j, lg_calls, task_ids>>
    /\ BatchUnchanged

NextBatchUpload ==
    \/ NextBatch
    \/ CreateTaskOk
    \/ CreateTaskFailed
    \/ CreateTaskRaised
    \/ EndBatch
    \/ ReturnTaskIds

SpecBatchUpload == InitBatchUpload /\ [][NextBatchUpload]_vars

\* C27: when upload_to_clickup returns, one create call was attempted for
\* every record of the table given, in input order, call k belonging to the
\* batch that starts at the multiple of batch_size below k.
C27_OneCreatePerRecord ==
    pc = "uploaded"
    => /\ Len(lg_calls) = lg_n
       /\ \A k \in DOMAIN lg_calls :
             /\ lg_calls[k].lead = k
             /\ lg_calls[k].batch = ((k - 1) \div batch_size) * batch_size

\* ------------------------------------------------------------------
\* deduplicate_leads: what the two rules leave and what they spare
\* ------------------------------------------------------------------

\* index labels of the rows deduplicate_leads kept
Survivors == {deduped[m].index : m \in DOMAIN deduped}

\* the row repeats the non-null email of an earlier row
RepeatsEmail(k) ==
    /\ df[k].email # None
    /\ \E j \in 1..(k - 1) : df[j].email = df[k].email

\* C28: among the records deduplicate_leads returns no two have the same
\* non-null email and no two have the same company and name with both
\* present; a dropped record without email repeats the company and name of
\* an earlier record, and a dropped record lacking company or name repeats
\* the email of an earlier record.
C28_SurvivorsDistinctNullsSpared ==
    pc = "deduped"
    => /\ \A a, b \in DOMAIN deduped :
             (a # b /\ deduped[a].email # None)
             => deduped[a].email # deduped[b].email
       /\ \A a, b \in DOMAIN deduped :
             (a # b /\ deduped[a].company # None /\ deduped[a].name # None)
             => ~(deduped[a].company = deduped[b].company
                  /\ deduped[a].name = deduped[b].name)
       /\ \A k \in DOMAIN df :
             (k \notin Survivors /\ df[k].email = None)
             => RepeatsCompanyName(k)
       /\ \A k \in DOMAIN df :
             (k \notin Survivors
              /\ (df[k].company = None \/ df[k].name = None))
             => RepeatsEmail(k)

\* three records without email and with the same name: the second was
\* dropped for the company it shares with the first, the third, which has
\* no company, was kept
C28_Witness ==
    /\ pc = "deduped"
    /\ Len(df) = 3
    /\ \A k \in 1..3 : df[k].email = None /\ df[k].name = df[1].name
    /\ df[1].name # None
    /\ df[1].company # None /\ df[2].company = df[1].company
    /\ df[3].company = None
    /\ Survivors = {1, 3}

\* ------------------------------------------------------------------
\* process_all_csvs: what becomes of a valid record dropped as a duplicate
\* ------------------------------------------------------------------

\* out stands for row: it has the row's email, or its company and name
Represents(out, row) ==
    \/ row.email # None /\ out.email = row.email
    \/ /\ row.company # None /\ row.name # None
       /\ out.company = row.company /\ out.name = row.name

\* C29: every record of the combined table that meets the validation
\* criteria and was removed by deduplicate_leads has a record with its email
\* or with its company and name in what validate_leads returns.
C29_ValidDuplicateIsRepresented ==
    pc = "validated"
    => \A k \in DOMAIN df :
          (IsValidLead(df[k])
           /\ \A m \in DOMAIN deduped : deduped[m].index # k)
          => \E v \in DOMAIN validated : Represents(validated[v], df[k])

\* ------------------------------------------------------------------
\* clean_email applied to its own result
\* ------------------------------------------------------------------

\* self.clean_email(v) for the value v an earlier call returned, as when a
\* table of cleaned leads is processed again
CleanEmailAgain ==
    /\ pc = "clean_email"
    /\ email_cleaned # Pending
    /\ email_again = Pending
    /\ email_again' = clean_email(email_cleaned)
    /\ UNCHANGED <<pc, email, email_cleaned, discovered_fields, coerce_vars,
                   dedup_vars, upload_vars, map_vars, validated, run_vars,
                   est_vars, gen_vars, files_vars, batch_vars>>

NextCleanTwice == CleanEmailCall \/ CleanEmailAgain

SpecCleanTwice == InitCleanEmail /\ [][NextCleanTwice]_vars

\* C30: when clean_email returned a value for an input, clean_email of that
\* value returns the same value.
C30_CleanEmailIdempotent ==
    (email_again # Pending /\ email_cleaned # None)
    => email_again = email_cleaned

====
